---- MODULE Spec2Model ----
(***************************************************************************)
(* Model of the This-Day-in-History door.                                  *)
(*  - Spec: wikimedia.Client.FetchOnThisDay with its on-disk TTL cache,    *)
(*    its retry loop with backoff, and writeCacheFileAtomic                *)
(*    (src/internal/wikimedia/client.go, second copy, lines 216-444);      *)
(*  - SpecRace: several processes sharing one cache entry;                 *)
(*  - SpecLoader: generateEventList, displayLoadingAnimation and the wait  *)
(*    for a key of main (src/main.go 474-518, 619-659, 798-805);           *)
(*    SpecLoaderFair is SpecLoader under the scheduling of the runtime;    *)
(*  - SpecJitter: the jitter of sleepContext (client.go 432-444);          *)
(*  - SpecSelect: selectEventsByEra and the strategy switch                *)
(*    (src/main.go 390-472, 661-697);                                      *)
(*  - SpecWrap, SpecLayout: wrapText and RenderEvents of the terminal      *)
(*    package (src/unnamed/part_003 69-189).                               *)
(***************************************************************************)
EXTENDS Integers, Sequences, FiniteSets, TLC

(***************************************************************************)
(* Bounds of the model.                                                    *)
(***************************************************************************)
\* the clock runs over 0..MaxTime
MaxTime == 2
\* the client's TTL is drawn from 0..MaxTTL
MaxTTL == 1
\* number of FetchOnThisDay calls in one behaviour
MaxCalls == 2

(***************************************************************************)
(* Program constants.                                                      *)
(***************************************************************************)
\* const maxAttempts = 3
maxAttempts == 3
\* backoff := 500 * time.Millisecond
InitialBackoff == 500
\* http.StatusOK
StatusOK == 200
\* http.StatusTooManyRequests
StatusTooManyRequests == 429

(***************************************************************************)
(* Inputs.                                                                 *)
(***************************************************************************)
\* month and day arguments; "" is the missing argument
Months == {"", "07"}
Days == {"20", "21"}

\* cacheFile := filepath.Join(c.cacheDir, "onthisday_<month>_<day>.json")
CachePath(m, d) == <<m, d>>
Paths == {CachePath(m, d) : m \in Months \ {""}, d \in Days \ {""}}

\* bytes of a body, as tokens: the braces of the top-level object, two
\* entries of the "events" array, another top-level field, a stray byte
Tokens == {"{", "}", "e1", "e2", "o", "x"}
EventTokens == {"e1", "e2"}

\* struct Event {Year int; Text string}
EventOf(tok) ==
  IF tok = "e1" THEN [Year |-> 1969, Text |-> "Moon landing"]
  ELSE [Year |-> -44, Text |-> "Ides of March"]

BodyA == <<"{", "e1", "e2", "}">>
BodyB == <<"{", "o", "e2", "}">>
BodyBad == <<"{", "e1", "x", "}">>
BodyCut == <<"{", "e1">>

\* bodies a server can answer with
ResponseBodies == {BodyA, BodyB, BodyBad}
\* HTTP status codes a server can answer with
Statuses == {200, 404, 429, 503, 600}

(***************************************************************************)
(* Errors and files.                                                       *)
(***************************************************************************)
Err(kind, code, b) == [kind |-> kind, code |-> code, body |-> b]
Nil == Err("nil", 0, <<>>)

File(b, t, r) == [exists |-> TRUE, body |-> b, mtime |-> t, readable |-> r]
NoFile == [exists |-> FALSE, body |-> <<>>, mtime |-> 0, readable |-> FALSE]

VARIABLES
  now,          \* wall clock
  ttl,          \* Client.ttl
  fs,           \* the cache directory: canonical path -> file
  tmp,          \* the temp file of the running writeCacheFileAtomic
  pc,           \* position of the running FetchOnThisDay
  month, day, bypassCache,   \* its arguments
  ctx,          \* its context: "live", "canceled", "deadline"
  attempt, backoff, lastErr, \* locals of the retry loop
  body,         \* the body read from the response
  ret,          \* the returned (events, error)
  calls,        \* number of calls started
  fs0,          \* the cache directory when the call started
  prev,         \* what the preceding call did
  httpAttempts, \* number of c.client.Do calls of this call
  sleepLog,     \* the delay d of every sleepContext(ctx, d) of this call
  statAge,      \* time.Since(fi.ModTime()) at the os.Stat, -1 if none
  fromCache,    \* the call returned the cached events (line 280)
  wrote,        \* writeCacheFileAtomic: "none", "running", "ok", "err"
  putTime,      \* clock when writeCacheFileAtomic was entered, -1 if not
  timeoutAt,    \* the attempt that failed by the context's deadline, 0 if none
  lastOutcome,  \* how the latest attempt ended: "network", "read", "response"
  crashedAt     \* step at which the process stopped, "" if it did not

envVars == <<now, ttl>>
argVars == <<month, day, bypassCache, calls, fs0, prev>>
loopVars == <<attempt, backoff, lastErr, body>>
histVars == <<httpAttempts, sleepLog, statAge, fromCache, wrote, putTime, timeoutAt, lastOutcome>>
vars == <<now, ttl, fs, tmp, pc, month, day, bypassCache, ctx, attempt, backoff,
          lastErr, body, ret, calls, fs0, prev, httpAttempts,
          sleepLog, statAge, fromCache, wrote, putTime, timeoutAt, lastOutcome, crashedAt>>

(***************************************************************************)
(* State of the other components of the program.  Each component has its   *)
(* own specification below; while one component runs the others rest in    *)
(* their idle state.                                                       *)
(***************************************************************************)
VARIABLES
  \* several processes sharing one cache entry
  rentry,       \* the inode the canonical path names, NoInode if none
  inodes,       \* inode -> bytes of the file
  rproc,        \* process -> [pc, got]
  lastRename    \* the process whose os.Rename came last, 0 if none

raceVars == <<rentry, inodes, rproc, lastRename>>

VARIABLES
  \* generateEventList and its displayLoadingAnimation goroutine
  mpc,          \* position of generateEventList
  lpc,          \* position of displayLoadingAnimation, "none" before the go
  doneCh,       \* the done channel: "none", "open", "closed"
  wg,           \* counter of the sync.WaitGroup
  stepIndex,    \* stepIndex of displayLoadingAnimation
  ticks,        \* number of timer expiries of the animation so far
  outcome,      \* what FetchOnThisDay returned: "error", "empty", "events"
  mout,         \* number of writes generateEventList made after wg.Wait()
  display       \* the writes to the terminal, in order: [who, what]

loaderVars == <<mpc, lpc, doneCh, wg, stepIndex, ticks, outcome, mout, display>>

NoInode == 0 - 1

RaceIdle ==
  /\ rentry = NoInode
  /\ inodes = <<>>
  /\ rproc = <<>>
  /\ lastRename = 0

VARIABLES
  \* the selection of the events to show
  allEvents,    \* the events the fetch returned
  strategy,     \* the -strategy flag
  shuffle,      \* the -shuffle flag
  eraSelected,  \* selectEventsByEra: selected after the first pass
  selected,     \* selectEventsByEra: the slice returned
  events,       \* generateEventList: events after the selection
  spc           \* "input", "selected" (selectEventsByEra returned), "listed"

selVars == <<allEvents, strategy, shuffle, eraSelected, selected, events, spc>>

SelIdle ==
  /\ allEvents = <<>>
  /\ strategy = "era-based"
  /\ shuffle = FALSE
  /\ eraSelected = <<>>
  /\ selected = <<>>
  /\ events = <<>>
  /\ spc = "input"

VARIABLES
  \* a call of wrapText
  wtext,        \* the text argument, a sequence of runes
  wwidth,       \* the maxWidth argument
  wlines,       \* the lines returned
  wpc           \* "input", "wrapped"

wrapVars == <<wtext, wwidth, wlines, wpc>>

WrapIdle ==
  /\ wtext = <<>>
  /\ wwidth = 0
  /\ wlines = <<>>
  /\ wpc = "input"

VARIABLES
  \* a call of RenderEvents
  revents,      \* the events argument
  accepted,     \* selected: the events accepted for display
  totalRowsUsed, \* totalRowsUsed after the acceptance loop
  drawn,        \* what was printed where: [row, what, ev, line]
  rpc           \* "input", "rendered"

layoutVars == <<revents, accepted, totalRowsUsed, drawn, rpc>>

LayoutIdle ==
  /\ revents = <<>>
  /\ accepted = <<>>
  /\ totalRowsUsed = 0
  /\ drawn = <<>>
  /\ rpc = "input"

VARIABLES
  \* a call of sleepContext
  jd,           \* d: the backoff, in nanoseconds
  jctx,         \* the context: "live", "canceled", "deadline"
  jtimer,       \* the duration given to time.After, -1 before the call
  jret,         \* the error returned: "none", "nil", "canceled", "deadline"
  jpc           \* "input", "select", "returned"

jitterVars == <<jd, jctx, jtimer, jret, jpc>>

JitterIdle ==
  /\ jd = 0
  /\ jctx = "live"
  /\ jtimer = 0 - 1
  /\ jret = "none"
  /\ jpc = "input"

LoaderIdle ==
  /\ mpc = "start"
  /\ lpc = "none"
  /\ doneCh = "none"
  /\ wg = 0
  /\ stepIndex = 0
  /\ ticks = 0
  /\ outcome = "none"
  /\ mout = 0
  /\ display = <<>>

otherVars == <<raceVars, loaderVars, selVars, wrapVars, layoutVars, jitterVars>>
OtherIdle == RaceIdle /\ LoaderIdle /\ SelIdle /\ WrapIdle /\ LayoutIdle /\ JitterIdle

NoRet == [evs |-> <<>>, err |-> Nil]
NoPrev == [wrote |-> FALSE, month |-> "", day |-> "", evs |-> <<>>, putTime |-> -1]

(***************************************************************************)
(* Pure functions of client.go.                                            *)
(***************************************************************************)
RECURSIVE EventsIn(_)
EventsIn(b) ==
  IF b = <<>> THEN <<>>
  ELSE IF Head(b) \in EventTokens THEN <<EventOf(Head(b))>> \o EventsIn(Tail(b))
  ELSE EventsIn(Tail(b))

\* variant of parseEventsFromBody: every body is accepted
parseEventsFromBodyLenient(b) == [evs |-> EventsIn(b), err |-> Nil]

\* json.Unmarshal accepts the body: one complete top-level object whose
\* fields are entries of "events" or other (ignored) fields
ValidJSON(b) ==
  /\ Len(b) >= 2
  /\ b[1] = "{"
  /\ b[Len(b)] = "}"
  /\ \A i \in 2..(Len(b) - 1) : b[i] \in EventTokens \cup {"o"}

parseEventsFromBody(b) ==
  IF ValidJSON(b)
  THEN [evs |-> EventsIn(b), err |-> Nil]
  ELSE [evs |-> <<>>, err |-> Err("parse", 0, <<>>)]

\* variant of IsFresh: the boundary age = ttl counts as stale
IsFreshExclusive(age, t) == age < t

\* time.Since(fi.ModTime()) <= c.ttl
IsFresh(age, t) == age <= t

\* variant of UseCache: the test of the flag is inverted
UseCacheInverted(bypass) == bypass

\* if !bypassCache { ... } around the cache lookup
UseCache(bypass) == ~bypass

\* variant of WriteCache: the body is cached whatever the flag says
WriteCacheAlways(bypass) == TRUE

\* if !bypassCache { ... } around writeCacheFileAtomic
WriteCache(bypass) == ~bypass

\* variant of IsRetryable: every 4xx status is retried as well
IsRetryableFrom400(code) == code >= 400 /\ code < 600

\* resp.StatusCode == 429 || (resp.StatusCode >= 500 && resp.StatusCode < 600)
IsRetryable(code) == code = StatusTooManyRequests \/ (code >= 500 /\ code < 600)

\* variant of AttemptsLeft: off by one, the last attempt is never made
AttemptsLeftShort(a) == a < maxAttempts - 1

\* if attempt < maxAttempts
AttemptsLeft(a) == a < maxAttempts

\* variant of NextBackoff: the backoff never grows
NextBackoffSame(b) == b

\* backoff *= 2
NextBackoff(b) == b * 2

\* variant of sleepContext: a plain time.Sleep, as in fetchHistoricalEvents of
\* main.go, which does not look at the context
sleepContextPlain(c) == {"nil"}

\* the select of sleepContext: the results it can return for a context state
\* (the timer, of at least 500ms, is never ready on entry; a goroutine blocked
\* in the select is woken by whichever of the two happens first)
sleepContext(c) == IF c = "live" THEN {"nil"} ELSE {c}

(***************************************************************************)
(* Initial state: a client with some TTL over a cache directory that may   *)
(* hold entries of earlier runs (good, unreadable, cut short).             *)
(***************************************************************************)
InitFiles ==
  {NoFile, File(BodyA, 0, TRUE), File(BodyA, 0, FALSE), File(BodyCut, 0, TRUE)}

Init ==
  /\ now = 0
  /\ ttl \in 0..MaxTTL
  /\ \E f \in InitFiles, g \in {NoFile, File(BodyA, 0, TRUE)} :
       fs = [p \in Paths |-> IF p = CachePath("07", "20") THEN f ELSE g]
  /\ tmp = NoFile
  /\ pc = "idle"
  /\ month = ""
  /\ day = ""
  /\ bypassCache = FALSE
  /\ ctx = "live"
  /\ attempt = 0
  /\ backoff = 0
  /\ lastErr = Nil
  /\ body = <<>>
  /\ ret = NoRet
  /\ calls = 0
  /\ fs0 = fs
  /\ prev = NoPrev
  /\ httpAttempts = 0
  /\ sleepLog = <<>>
  /\ statAge = -1
  /\ fromCache = FALSE
  /\ wrote = "none"
  /\ putTime = -1
  /\ timeoutAt = 0
  /\ lastOutcome = Err("none", 0, <<>>)
  /\ crashedAt = ""
  /\ OtherIdle

\* the fetch pipeline at rest, while another component is looked at
FetchIdle ==
  /\ now = 0
  /\ ttl = 0
  /\ fs = [p \in Paths |-> NoFile]
  /\ tmp = NoFile
  /\ pc = "idle"
  /\ month = ""
  /\ day = ""
  /\ bypassCache = FALSE
  /\ ctx = "live"
  /\ attempt = 0
  /\ backoff = 0
  /\ lastErr = Nil
  /\ body = <<>>
  /\ ret = NoRet
  /\ calls = 0
  /\ fs0 = fs
  /\ prev = NoPrev
  /\ httpAttempts = 0
  /\ sleepLog = <<>>
  /\ statAge = -1
  /\ fromCache = FALSE
  /\ wrote = "none"
  /\ putTime = -1
  /\ timeoutAt = 0
  /\ lastOutcome = Err("none", 0, <<>>)
  /\ crashedAt = ""

path == CachePath(month, day)
WritePcs == {"w_mkdir", "w_create", "w_write", "w_sync", "w_close", "w_rename"}

\* the locals of the retry loop outside the loop
NoLoop ==
  /\ attempt' = 0
  /\ backoff' = 0
  /\ lastErr' = Nil

\* return evs, err
Return(evs, err) ==
  /\ pc' = "done"
  /\ ret' = [evs |-> evs, err |-> err]
  /\ NoLoop

\* the retry loop is entered: attempt := 1, backoff := 500ms
EnterLoop ==
  /\ pc' = "loop"
  /\ attempt' = 1
  /\ backoff' = InitialBackoff
  /\ lastErr' = Nil

(***************************************************************************)
(* The environment: the clock and the caller's context.                    *)
(***************************************************************************)
\* the clock advances; only os.Stat and the writes to the temp file read it,
\* so it is let advance right before them and nowhere else
Tick ==
  /\ now < MaxTime
  /\ pc \in {"stat", "w_write"}
  /\ now' = now + 1
  /\ UNCHANGED <<ttl, fs, tmp, pc, ctx, ret, crashedAt>>
  /\ UNCHANGED <<otherVars, argVars, loopVars, histVars>>

\* the context is read by c.client.Do, io.ReadAll and sleepContext only
InRequest == pc \in {"loop", "sleep"}

\* the caller cancels the context of the running call
CtxCancel ==
  /\ InRequest
  /\ ctx = "live"
  /\ ctx' = "canceled"
  /\ UNCHANGED <<envVars, fs, tmp, pc, ret, crashedAt>>
  /\ UNCHANGED <<otherVars, argVars, loopVars, histVars>>

\* the deadline of the context of the running call expires
CtxDeadline ==
  /\ InRequest
  /\ ctx = "live"
  /\ ctx' = "deadline"
  /\ UNCHANGED <<envVars, fs, tmp, pc, ret, crashedAt>>
  /\ UNCHANGED <<otherVars, argVars, loopVars, histVars>>

(***************************************************************************)
(* FetchOnThisDay: entry and cache lookup.                                 *)
(***************************************************************************)
StartCall(m, d, bypass) ==
  /\ pc \in {"idle", "done", "crashed"}
  /\ calls < MaxCalls
  /\ calls' = calls + 1
  /\ month' = m
  /\ day' = d
  /\ bypassCache' = bypass
  /\ ctx' = "live"
  /\ fs0' = fs
  /\ prev' = IF pc = "done" /\ wrote = "ok"
             THEN [wrote |-> TRUE, month |-> month, day |-> day,
                   evs |-> ret.evs, putTime |-> putTime]
             ELSE NoPrev
  /\ httpAttempts' = 0
  /\ sleepLog' = <<>>
  /\ statAge' = -1
  /\ fromCache' = FALSE
  /\ wrote' = "none"
  /\ putTime' = -1
  /\ timeoutAt' = 0
  /\ lastOutcome' = Err("none", 0, <<>>)
  /\ crashedAt' = ""
  /\ body' = <<>>
  /\ tmp' = NoFile
  /\ IF m = "" \/ d = ""
     THEN Return(<<>>, Err("args", 0, <<>>))
     ELSE IF UseCache(bypass)
     THEN /\ pc' = "stat"
          /\ ret' = NoRet
          /\ NoLoop
     ELSE /\ EnterLoop
          /\ ret' = NoRet
  /\ UNCHANGED <<otherVars, envVars, fs>>

\* variant of CacheStat: an entry older than the TTL is removed
CacheStatEvict ==
  /\ pc = "stat"
  /\ IF fs[path].exists
     THEN /\ statAge' = now - fs[path].mtime
          /\ IF IsFresh(now - fs[path].mtime, ttl)
             THEN /\ pc' = "read"
                  /\ UNCHANGED <<attempt, backoff, lastErr, fs>>
             ELSE /\ EnterLoop
                  /\ fs' = [fs EXCEPT ![path] = NoFile]
     ELSE /\ statAge' = -1
          /\ EnterLoop
          /\ UNCHANGED fs
  /\ UNCHANGED <<envVars, tmp, ctx, ret, crashedAt, body>>
  /\ UNCHANGED <<otherVars, argVars, httpAttempts, sleepLog, fromCache, wrote, putTime, timeoutAt, lastOutcome>>

\* os.Stat(cacheFile) and the freshness test
CacheStat ==
  /\ pc = "stat"
  /\ IF fs[path].exists
     THEN /\ statAge' = now - fs[path].mtime
          /\ IF IsFresh(now - fs[path].mtime, ttl)
             THEN /\ pc' = "read"
                  /\ UNCHANGED <<attempt, backoff, lastErr>>
             ELSE EnterLoop
     ELSE /\ statAge' = -1
          /\ EnterLoop
  /\ UNCHANGED <<envVars, fs, tmp, ctx, ret, crashedAt, body>>
  /\ UNCHANGED <<otherVars, argVars, httpAttempts, sleepLog, fromCache, wrote, putTime, timeoutAt, lastOutcome>>

\* variant of CacheRead: a read or parse failure of the entry is returned
CacheReadStrict ==
  /\ pc = "read"
  /\ IF fs[path].exists /\ fs[path].readable
     THEN /\ Return(parseEventsFromBody(fs[path].body).evs,
                    parseEventsFromBody(fs[path].body).err)
          /\ fromCache' = (parseEventsFromBody(fs[path].body).err = Nil)
     ELSE /\ Return(<<>>, Err("cache", 0, <<>>))
          /\ UNCHANGED fromCache
  /\ UNCHANGED <<envVars, fs, tmp, ctx, crashedAt, body>>
  /\ UNCHANGED <<otherVars, argVars, httpAttempts, sleepLog, statAge, wrote, putTime, timeoutAt, lastOutcome>>

\* os.ReadFile(cacheFile) and parseEventsFromBody(data)
CacheRead ==
  /\ pc = "read"
  /\ IF fs[path].exists /\ fs[path].readable
        /\ parseEventsFromBody(fs[path].body).err = Nil
     THEN /\ Return(parseEventsFromBody(fs[path].body).evs, Nil)
          /\ fromCache' = TRUE
     ELSE /\ EnterLoop
          /\ UNCHANGED <<ret, fromCache>>
  /\ UNCHANGED <<envVars, fs, tmp, ctx, crashedAt, body>>
  /\ UNCHANGED <<otherVars, argVars, httpAttempts, sleepLog, statAge, wrote, putTime, timeoutAt, lastOutcome>>

(***************************************************************************)
(* FetchOnThisDay: the retry loop.  One step is one attempt, from          *)
(* c.client.Do to the next blocking call; line 377 after the loop is part  *)
(* of each of them.                                                        *)
(***************************************************************************)
\* a transient failure err of the current attempt: lastErr = err, then
\* sleepContext(ctx, backoff) if attempts remain, else return nil, lastErr
Transient(err) ==
  IF AttemptsLeft(attempt)
  THEN /\ lastErr' = err
       /\ sleepLog' = Append(sleepLog, backoff)
       /\ pc' = "sleep"
       /\ UNCHANGED <<ret, attempt, backoff>>
  ELSE /\ Return(<<>>, err)
       /\ UNCHANGED sleepLog

\* "attempt <= maxAttempts" is false: return "failed to fetch events: lastErr"
Exhausted ==
  /\ Return(<<>>, Err("exhausted", lastErr.code, <<>>))
  /\ UNCHANGED <<sleepLog, httpAttempts, timeoutAt, lastOutcome, body, wrote>>

\* c.client.Do returns an error: the connection failed, or the context is done
DoFails ==
  /\ pc = "loop"
  /\ IF attempt <= maxAttempts
     THEN /\ httpAttempts' = httpAttempts + 1
          /\ timeoutAt' = IF ctx = "deadline" THEN attempt ELSE timeoutAt
          /\ lastOutcome' = Err("network", 0, <<>>)
          /\ Transient(Err("network", 0, <<>>))
          /\ UNCHANGED <<body, wrote>>
     ELSE Exhausted
  /\ UNCHANGED <<envVars, fs, tmp, ctx, crashedAt>>
  /\ UNCHANGED <<otherVars, argVars, statAge, fromCache, putTime>>

\* c.client.Do returns a response and io.ReadAll(resp.Body) an error
ReadFails ==
  /\ pc = "loop"
  /\ IF attempt <= maxAttempts
     THEN /\ httpAttempts' = httpAttempts + 1
          /\ timeoutAt' = IF ctx = "deadline" THEN attempt ELSE timeoutAt
          /\ lastOutcome' = Err("read", 0, <<>>)
          /\ Transient(Err("read", 0, <<>>))
          /\ UNCHANGED <<body, wrote>>
     ELSE Exhausted
  /\ UNCHANGED <<envVars, fs, tmp, ctx, crashedAt>>
  /\ UNCHANGED <<otherVars, argVars, statAge, fromCache, putTime>>

\* c.client.Do returns a response with status code and io.ReadAll its body b
\* (lines 337-374); a response read while the context is done is the same
\* behaviour as the context becoming done right after it
Responds(code, b) ==
  /\ pc = "loop"
  /\ ctx = "live"
  /\ IF attempt <= maxAttempts
     THEN /\ httpAttempts' = httpAttempts + 1
          /\ lastOutcome' = Err("response", code, b)
          /\ IF code = StatusOK
             THEN IF parseEventsFromBody(b).err # Nil
                  THEN /\ Return(<<>>, parseEventsFromBody(b).err)
                       /\ UNCHANGED <<sleepLog, wrote, body>>
                  ELSE IF WriteCache(bypassCache)
                  THEN /\ pc' = "w_mkdir"
                       /\ wrote' = "running"
                       /\ body' = b
                       /\ NoLoop
                       /\ UNCHANGED <<ret, sleepLog>>
                  ELSE /\ Return(parseEventsFromBody(b).evs, Nil)
                       /\ body' = b
                       /\ UNCHANGED <<sleepLog, wrote>>
             ELSE IF IsRetryable(code)
             THEN /\ Transient(Err("status", code, <<>>))
                  /\ UNCHANGED <<wrote, body>>
             ELSE /\ Return(<<>>, Err("status_body", code, b))
                  /\ UNCHANGED <<sleepLog, wrote, body>>
          /\ UNCHANGED timeoutAt
     ELSE Exhausted
  /\ UNCHANGED <<envVars, fs, tmp, ctx, crashedAt>>
  /\ UNCHANGED <<otherVars, argVars, statAge, fromCache, putTime>>

\* sleepContext returns nil: backoff *= 2; continue
SleepElapsed ==
  /\ pc = "sleep"
  /\ "nil" \in sleepContext(ctx)
  /\ backoff' = NextBackoff(backoff)
  /\ attempt' = attempt + 1
  /\ pc' = "loop"
  /\ UNCHANGED <<envVars, fs, tmp, ctx, ret, crashedAt, lastErr, body>>
  /\ UNCHANGED <<otherVars, argVars, histVars>>

\* sleepContext returns ctx.Err(): return nil, err
SleepInterrupted ==
  /\ pc = "sleep"
  /\ \E e \in sleepContext(ctx) \ {"nil"} : Return(<<>>, Err(e, 0, <<>>))
  /\ UNCHANGED <<envVars, fs, tmp, ctx, crashedAt, body>>
  /\ UNCHANGED <<otherVars, argVars, histVars>>

(***************************************************************************)
(* writeCacheFileAtomic(cacheFile, body), one action per file operation,   *)
(* and the return of FetchOnThisDay that follows it (lines 351-356).       *)
(***************************************************************************)
\* writeCacheFileAtomic returns err # nil: logged, then return evs, nil
WriteFailed ==
  /\ wrote' = "err"
  /\ Return(parseEventsFromBody(body).evs, Nil)

\* tmpFile.Close(); os.Remove(tmpPath)
RemoveTmp == tmp' = NoFile

\* os.MkdirAll(dir, 0o755)
WMkdir ==
  /\ pc = "w_mkdir"
  /\ putTime' = now
  /\ \/ /\ pc' = "w_create"
        /\ UNCHANGED <<ret, wrote, attempt, backoff, lastErr>>
     \/ WriteFailed
  /\ UNCHANGED <<envVars, fs, tmp, ctx, crashedAt, body>>
  /\ UNCHANGED <<otherVars, argVars, httpAttempts, sleepLog, statAge, fromCache, timeoutAt, lastOutcome>>

\* variant of WCreate: os.Create(path), which truncates the entry itself
WCreateInPlace ==
  /\ pc = "w_create"
  /\ fs' = [fs EXCEPT ![path] = File(<<>>, now, TRUE)]
  /\ tmp' = File(<<>>, now, TRUE)
  /\ pc' = "w_write"
  /\ UNCHANGED <<envVars, ctx, crashedAt, body, ret, wrote, attempt, backoff, lastErr>>
  /\ UNCHANGED <<otherVars, argVars, httpAttempts, sleepLog, statAge, fromCache, putTime, timeoutAt, lastOutcome>>

\* os.CreateTemp(dir, "tmp-*.json"): a new empty file under a fresh name
WCreate ==
  /\ pc = "w_create"
  /\ \/ /\ tmp' = File(<<>>, now, TRUE)
        /\ pc' = "w_write"
        /\ UNCHANGED <<ret, wrote, attempt, backoff, lastErr>>
     \/ /\ WriteFailed
        /\ UNCHANGED tmp
  /\ UNCHANGED <<envVars, fs, ctx, crashedAt, body>>
  /\ UNCHANGED <<otherVars, argVars, httpAttempts, sleepLog, statAge, fromCache, putTime, timeoutAt, lastOutcome>>

\* tmpFile.Write(data): the bytes reach the file one after the other; Write
\* returns nil only when all of data is written
WWrite ==
  /\ pc = "w_write"
  /\ \/ /\ Len(tmp.body) < Len(body)
        /\ tmp' = File(SubSeq(body, 1, Len(tmp.body) + 1), now, TRUE)
        /\ UNCHANGED <<pc, ret, wrote, attempt, backoff, lastErr>>
     \/ /\ Len(tmp.body) = Len(body)
        /\ pc' = "w_sync"
        /\ UNCHANGED <<tmp, ret, wrote, attempt, backoff, lastErr>>
     \/ /\ Len(tmp.body) < Len(body)
        /\ RemoveTmp
        /\ WriteFailed
  /\ UNCHANGED <<envVars, fs, ctx, crashedAt, body>>
  /\ UNCHANGED <<otherVars, argVars, httpAttempts, sleepLog, statAge, fromCache, putTime, timeoutAt, lastOutcome>>

\* tmpFile.Sync()
WSync ==
  /\ pc = "w_sync"
  /\ \/ /\ pc' = "w_close"
        /\ UNCHANGED <<tmp, ret, wrote, attempt, backoff, lastErr>>
     \/ /\ RemoveTmp
        /\ WriteFailed
  /\ UNCHANGED <<envVars, fs, ctx, crashedAt, body>>
  /\ UNCHANGED <<otherVars, argVars, httpAttempts, sleepLog, statAge, fromCache, putTime, timeoutAt, lastOutcome>>

\* tmpFile.Close()
WClose ==
  /\ pc = "w_close"
  /\ \/ /\ pc' = "w_rename"
        /\ UNCHANGED <<tmp, ret, wrote, attempt, backoff, lastErr>>
     \/ /\ RemoveTmp
        /\ WriteFailed
  /\ UNCHANGED <<envVars, fs, ctx, crashedAt, body>>
  /\ UNCHANGED <<otherVars, argVars, httpAttempts, sleepLog, statAge, fromCache, putTime, timeoutAt, lastOutcome>>

\* variant of WRename: the rename is left out and the temp file removed
WRenameSkipped ==
  /\ pc = "w_rename"
  /\ RemoveTmp
  /\ wrote' = "ok"
  /\ Return(parseEventsFromBody(body).evs, Nil)
  /\ UNCHANGED <<envVars, fs, ctx, crashedAt, body>>
  /\ UNCHANGED <<otherVars, argVars, httpAttempts, sleepLog, statAge, fromCache, putTime, timeoutAt, lastOutcome>>

\* os.Rename(tmpPath, path): the temp file becomes the entry, in one step
WRename ==
  /\ pc = "w_rename"
  /\ \/ /\ fs' = [fs EXCEPT ![path] = tmp]
        /\ tmp' = NoFile
        /\ wrote' = "ok"
        /\ Return(parseEventsFromBody(body).evs, Nil)
     \/ /\ RemoveTmp
        /\ WriteFailed
        /\ UNCHANGED fs
  /\ UNCHANGED <<envVars, ctx, crashedAt, body>>
  /\ UNCHANGED <<otherVars, argVars, httpAttempts, sleepLog, statAge, fromCache, putTime, timeoutAt, lastOutcome>>

\* the process stops (idle timeout, kill) at a step of writeCacheFileAtomic
Crash ==
  /\ pc \in WritePcs
  /\ crashedAt' = pc
  /\ pc' = "crashed"
  /\ UNCHANGED <<envVars, fs, tmp, ctx, ret>>
  /\ UNCHANGED <<otherVars, argVars, loopVars, histVars>>

Next ==
  \/ Tick
  \/ CtxCancel
  \/ CtxDeadline
  \/ \E m \in Months, d \in Days, b \in BOOLEAN : StartCall(m, d, b)
  \/ CacheStat
  \/ CacheRead
  \/ DoFails
  \/ ReadFails
  \/ \E code \in Statuses, b \in ResponseBodies : Responds(code, b)
  \/ SleepElapsed
  \/ SleepInterrupted
  \/ WMkdir
  \/ WCreate
  \/ WWrite
  \/ WSync
  \/ WClose
  \/ WRename
  \/ Crash

Spec == Init /\ [][Next]_vars

(***************************************************************************)
(* Properties of FetchOnThisDay.                                           *)
(***************************************************************************)
Done == pc = "done"
ValidArgs == month # "" /\ day # ""
entry0 == fs0[path]
NoAttemptAtAll == httpAttempts = 0 /\ sleepLog = <<>> /\ wrote = "none" /\ fs = fs0

\* the entry was within the TTL when the call looked at it (or still is)
FreshEntry0 ==
  /\ ValidArgs
  /\ entry0.exists
  /\ (statAge >= 0 /\ statAge <= ttl) \/ now - entry0.mtime <= ttl

\* the latest attempt ended in a transient failure: connection failure,
\* response-read failure, HTTP 429 or 5xx
TransientOutcome ==
  \/ lastOutcome.kind \in {"network", "read"}
  \/ /\ lastOutcome.kind = "response"
     /\ lastOutcome.code = 429 \/ (lastOutcome.code >= 500 /\ lastOutcome.code <= 599)

\* the error that FetchOnThisDay makes of a transient failure
TransientError ==
  IF lastOutcome.kind = "response"
  THEN Err("status", lastOutcome.code, <<>>)
  ELSE Err(lastOutcome.kind, 0, <<>>)

\* the latest attempt ended in a permanent error: a status that is neither
\* 2xx nor 429 nor 5xx, or a 200 whose body is not valid JSON
PermanentStatus ==
  /\ lastOutcome.kind = "response"
  /\ lastOutcome.code < 200 \/ lastOutcome.code > 299
  /\ lastOutcome.code # 429
  /\ lastOutcome.code < 500 \/ lastOutcome.code > 599
MalformedOK ==
  /\ lastOutcome.kind = "response"
  /\ lastOutcome.code = 200
  /\ ~ValidJSON(lastOutcome.body)

\* C1: a call with bypassCache=false that finds an entry within the TTL,
\* readable and parseable, returns the events parsed from the cached body, and
\* a call that returns them has made no HTTP attempt, no backoff sleep and no
\* cache write.
C1_FreshCacheNoNetwork ==
  /\ (Done /\ fromCache) =>
       /\ NoAttemptAtAll
       /\ ret = [evs |-> parseEventsFromBody(entry0.body).evs, err |-> Nil]
  /\ (Done /\ ~bypassCache /\ FreshEntry0 /\ entry0.readable /\ ValidJSON(entry0.body)) =>
       fromCache

C1_Witness ==
  /\ Done /\ fromCache /\ ~bypassCache /\ FreshEntry0
  /\ ret.evs = EventsIn(BodyA) /\ httpAttempts = 0

\* C2: no call makes more than 3 HTTP attempts; a call whose latest attempt
\* ended in a transient failure, with the context not done, has made exactly
\* 3 attempts and 2 backoff sleeps and returns the failure of that final
\* attempt, with its status code for a status failure.
C2_ThreeAttempts ==
  /\ httpAttempts <= 3
  /\ (Done /\ TransientOutcome /\ ctx = "live") =>
       /\ httpAttempts = 3
       /\ Len(sleepLog) = 2
       /\ ret = [evs |-> <<>>, err |-> TransientError]

C2_Witness ==
  /\ Done /\ ctx = "live" /\ httpAttempts = 3
  /\ ret.err = Err("status", 503, <<>>)

\* C3: a call whose latest attempt ended in a permanent error has returned
\* that error (with status code and body for a status), has slept only
\* before that attempt and not after it, and has written nothing to the
\* cache; a backoff sleep only ever follows a transient failure.
C3_PermanentErrorEnds ==
  /\ (Done /\ PermanentStatus) =>
       /\ ret = [evs |-> <<>>, err |-> Err("status_body", lastOutcome.code, lastOutcome.body)]
       /\ Len(sleepLog) = httpAttempts - 1
       /\ wrote = "none" /\ fs = fs0
  /\ (Done /\ MalformedOK) =>
       /\ ret = [evs |-> <<>>, err |-> Err("parse", 0, <<>>)]
       /\ Len(sleepLog) = httpAttempts - 1
       /\ wrote = "none" /\ fs = fs0
  /\ (PermanentStatus \/ MalformedOK) => Done
  /\ pc = "sleep" => TransientOutcome

C3_Witness ==
  /\ Done /\ httpAttempts = 2
  /\ ret.err = Err("status_body", 404, BodyA)

\* C4: once the context is done during a backoff sleep, the only step the
\* call takes is to return the context's error, with no further attempt.
C4_CancelInSleep ==
  [][(pc = "sleep" /\ ctx # "live" /\ pc' # "sleep") =>
       /\ pc' = "done"
       /\ ret' = [evs |-> <<>>, err |-> Err(ctx, 0, <<>>)]
       /\ httpAttempts' = httpAttempts]_vars

\* the latest attempt got a response, so the context was live then, and the
\* call returned the context's error: it became done during the sleep
C4_Witness ==
  /\ Done /\ lastOutcome.kind = "response" /\ httpAttempts = 2
  /\ ret.err = Err("canceled", 0, <<>>)

\* C5 as claimed: a call does not end on an attempt other than the last one
\* that failed because the deadline expired (it backs off and goes on).
C5_TimeoutRetried ==
  Done => timeoutAt \notin {1, 2}

\* C5, amended: an attempt that fails while the context is live (a timeout
\* of the transport included) ends the call only if it is the third; an
\* attempt that fails because the context's deadline expired is the call's
\* last one, whichever attempt it is: after an attempt other than the third
\* the backoff returns the deadline error at once, after the third the
\* attempt's own error is returned.
C5_TimeoutEndsCall ==
  /\ (Done /\ lastOutcome.kind \in {"network", "read"} /\ ctx = "live") => httpAttempts = 3
  /\ timeoutAt > 0 =>
       /\ pc \in {"sleep", "done"}
       /\ httpAttempts = timeoutAt
  /\ (Done /\ timeoutAt > 0) =>
       ret = [evs |-> <<>>,
              err |-> IF timeoutAt < 3 THEN Err("deadline", 0, <<>>) ELSE TransientError]

C5_Witness ==
  /\ Done /\ timeoutAt = 1 /\ httpAttempts = 1
  /\ ret.err = Err("deadline", 0, <<>>)

\* C6: a call with bypassCache=true never stats, reads or writes the cache:
\* the cache directory stays what it was when the call started, and the call
\* ends only after at least one HTTP attempt.
C6_BypassLeavesCache ==
  (bypassCache /\ ValidArgs) =>
    /\ pc \notin {"stat", "read", "crashed"} \cup WritePcs
    /\ statAge = -1 /\ ~fromCache /\ wrote = "none"
    /\ fs = fs0 /\ tmp = NoFile
    /\ Done => httpAttempts >= 1

C6_Witness ==
  /\ Done /\ bypassCache /\ FreshEntry0 /\ entry0.readable /\ entry0.body = BodyA
  /\ ret = [evs |-> EventsIn(BodyB), err |-> Nil]

\* C7: an entry within the TTL that cannot be read or does not parse sends
\* the call to the network like a missing one; a failed cache write leaves
\* the returned events and the nil error; every returned error is the
\* argument error, the context's error or the failure of an HTTP attempt.
C7_CacheFailuresHidden ==
  /\ (Done /\ ~bypassCache /\ ValidArgs /\ (~entry0.exists \/ ~entry0.readable \/ ~ValidJSON(entry0.body))) =>
       /\ ~fromCache
       /\ httpAttempts >= 1
  /\ (Done /\ wrote = "err") =>
       ret = [evs |-> EventsIn(lastOutcome.body), err |-> Nil]
  /\ Done =>
       \/ ret.err = Nil
       \/ ret.err.kind = "args" /\ ~ValidArgs
       \/ ret.err.kind \in {"canceled", "deadline"} /\ ret.err.kind = ctx
       \/ ret.err = TransientError /\ TransientOutcome
       \/ ret.err.kind = "status_body" /\ PermanentStatus
       \/ ret.err.kind = "parse" /\ MalformedOK

C7_Witness ==
  /\ Done /\ ~bypassCache /\ FreshEntry0 /\ ~entry0.readable
  /\ wrote = "err" /\ ret = [evs |-> EventsIn(BodyA), err |-> Nil]

\* C8: the call takes the entry iff its age at the os.Stat is at most the
\* TTL: an entry older than the TTL is never returned and sends the call to
\* the network, an entry of age exactly the TTL is returned.
C8_FreshIffWithinTTL ==
  /\ pc = "read" => (entry0.exists /\ statAge >= 0 /\ statAge <= ttl)
  /\ (Done /\ fromCache) => (entry0.exists /\ statAge >= 0 /\ statAge <= ttl)
  /\ (Done /\ statAge > ttl) => (~fromCache /\ httpAttempts >= 1)
  /\ (Done /\ statAge >= 0 /\ statAge <= ttl /\ entry0.readable /\ ValidJSON(entry0.body)) =>
       fromCache

C8_Witness ==
  /\ Done /\ fromCache /\ ttl > 0 /\ statAge = ttl

\* C9: after a fetch whose cache write succeeded the entry of its date holds
\* the response body verbatim, and the next call for that date with
\* bypassCache=false, TTL > 0 and the clock where it was at the write is
\* served from the cache with the same events.
C9_CacheRoundTrip ==
  /\ (Done /\ wrote = "ok") =>
       /\ fs[path].exists
       /\ fs[path].body = lastOutcome.body
       /\ ret = [evs |-> EventsIn(lastOutcome.body), err |-> Nil]
  /\ (Done /\ ~bypassCache /\ prev.wrote /\ prev.month = month /\ prev.day = day
        /\ ttl > 0 /\ now = prev.putTime) =>
       /\ fromCache
       /\ ret = [evs |-> prev.evs, err |-> Nil]

C9_Witness ==
  /\ Done /\ ~bypassCache /\ prev.wrote /\ prev.month = month /\ prev.day = day
  /\ ttl > 0 /\ now = prev.putTime /\ fromCache /\ ret.evs = EventsIn(BodyB)

\* C10: at every step of writeCacheFileAtomic, and wherever the process
\* stops in it, each entry is the entry the call found or, for the call's
\* date after the rename, the complete response body; up to the rename the
\* cache directory is what the call found.
C10_CrashSafeWrite ==
  /\ \A p \in Paths :
       \/ fs[p] = fs0[p]
       \/ p = path /\ fs[p].exists /\ fs[p].body = lastOutcome.body /\ wrote = "ok"
  /\ (pc \in WritePcs \cup {"crashed"}) => fs = fs0

C10_Witness ==
  /\ pc = "crashed" /\ crashedAt = "w_write"
  /\ tmp.exists /\ Len(tmp.body) > 0 /\ Len(tmp.body) < Len(body)
  /\ entry0.exists /\ fs[path] = entry0

(***************************************************************************)
(* Several processes of the door run FetchOnThisDay for the same date on   *)
(* one cache directory.  Files are inodes: the canonical path names one    *)
(* inode, os.ReadFile reads the inode it opened, os.CreateTemp makes a new *)
(* inode under a unique name and os.Rename makes the canonical path name   *)
(* the temp file's inode in one step.                                      *)
(***************************************************************************)
\* number of processes racing on the entry
NumProcs == 2

Procs == 1..NumProcs
\* inode of the entry present before the race; the temp file of process p
\* is inode p
OldInode == 0
\* the entry present before the race: a body that parses or one that does
\* not; neither is a prefix of a body written during the race
BodyOld == <<"{", "e2", "}">>
OldBodies == {BodyOld, BodyBad}
\* bodies the server answers with during the race (all parse)
RaceBodies == {BodyA, BodyB}

RaceProc(pcv, fd, read, got, b, renamed) ==
  [pc |-> pcv, fd |-> fd, read |-> read, got |-> got, body |-> b, renamed |-> renamed]

RaceInit ==
  /\ rentry \in {NoInode, OldInode}
  /\ \E old \in OldBodies :
       inodes = [i \in 0..NumProcs |-> IF i = OldInode /\ rentry = OldInode THEN old ELSE <<>>]
  /\ rproc = [p \in Procs |-> RaceProc("stat", NoInode, FALSE, <<>>, <<>>, FALSE)]
  /\ lastRename = 0
  /\ FetchIdle /\ LoaderIdle /\ SelIdle /\ WrapIdle /\ LayoutIdle /\ JitterIdle

outsideRace == <<vars, loaderVars, selVars, wrapVars, layoutVars, jitterVars>>

RaceGoto(p, pcv) == rproc' = [rproc EXCEPT ![p].pc = pcv]

\* os.Stat(cacheFile) and the freshness test; the age of the entry is not
\* part of this model, so a present entry is found fresh or stale
RaceStat(p) ==
  /\ rproc[p].pc = "stat"
  /\ IF rentry = NoInode
     THEN RaceGoto(p, "fetch")
     ELSE \E fresh \in BOOLEAN : RaceGoto(p, IF fresh THEN "open" ELSE "fetch")
  /\ UNCHANGED <<rentry, inodes, lastRename>>
  /\ UNCHANGED outsideRace

\* os.ReadFile(cacheFile): the open binds the inode the path names now
RaceOpen(p) ==
  /\ rproc[p].pc = "open"
  /\ rproc' = [rproc EXCEPT ![p].pc = "read", ![p].fd = rentry]
  /\ UNCHANGED <<rentry, inodes, lastRename>>
  /\ UNCHANGED outsideRace

\* os.ReadFile(cacheFile): the bytes of the opened inode, then
\* parseEventsFromBody; a body that does not parse falls through to the fetch
RaceRead(p) ==
  /\ rproc[p].pc = "read"
  /\ LET b == inodes[rproc[p].fd] IN
       rproc' = [rproc EXCEPT ![p].pc = IF parseEventsFromBody(b).err = Nil
                                        THEN "done" ELSE "fetch",
                              ![p].read = TRUE,
                              ![p].got = b]
  /\ UNCHANGED <<rentry, inodes, lastRename>>
  /\ UNCHANGED outsideRace

\* the retry loop, taken as one step: a parsed 200 body, or an error
RaceFetch(p) ==
  /\ rproc[p].pc = "fetch"
  /\ \/ \E b \in RaceBodies :
          rproc' = [rproc EXCEPT ![p].pc = "create", ![p].body = b]
     \/ RaceGoto(p, "done")
  /\ UNCHANGED <<rentry, inodes, lastRename>>
  /\ UNCHANGED outsideRace

\* variant of RaceCreate: the file is created at the canonical path itself
RaceCreateInPlace(p) ==
  /\ rproc[p].pc = "create"
  /\ inodes' = [inodes EXCEPT ![p] = <<>>]
  /\ rentry' = p
  /\ RaceGoto(p, "write")
  /\ UNCHANGED lastRename
  /\ UNCHANGED outsideRace

\* os.CreateTemp(dir, "tmp-*.json"): a new empty file under a name no other
\* file has
RaceCreate(p) ==
  /\ rproc[p].pc = "create"
  /\ inodes' = [inodes EXCEPT ![p] = <<>>]
  /\ RaceGoto(p, "write")
  /\ UNCHANGED <<rentry, lastRename>>
  /\ UNCHANGED outsideRace

\* tmpf.Write(data), a piece at a time
RaceWrite(p) ==
  /\ rproc[p].pc = "write"
  /\ LET b == rproc[p].body
         n == Len(inodes[p]) IN
       /\ inodes' = [inodes EXCEPT ![p] = Append(@, b[n + 1])]
       /\ RaceGoto(p, IF n + 1 = Len(b) THEN "sync" ELSE "write")
  /\ UNCHANGED <<rentry, lastRename>>
  /\ UNCHANGED outsideRace

\* tmpf.Sync() and tmpf.Close()
RaceSync(p) ==
  /\ rproc[p].pc = "sync"
  /\ RaceGoto(p, "rename")
  /\ UNCHANGED <<rentry, inodes, lastRename>>
  /\ UNCHANGED outsideRace

\* os.Rename(tmpName, path)
RaceRename(p) ==
  /\ rproc[p].pc = "rename"
  /\ rentry' = p
  /\ lastRename' = p
  /\ rproc' = [rproc EXCEPT ![p].pc = "done", ![p].renamed = TRUE]
  /\ UNCHANGED inodes
  /\ UNCHANGED outsideRace

\* a step of writeCacheFileAtomic fails: the temp file is removed and the
\* call returns the events without a cache entry
RaceWriteFails(p) ==
  /\ rproc[p].pc \in {"write", "sync", "rename"}
  /\ inodes' = [inodes EXCEPT ![p] = <<>>]
  /\ RaceGoto(p, "done")
  /\ UNCHANGED <<rentry, lastRename>>
  /\ UNCHANGED outsideRace

RaceNext ==
  \E p \in Procs :
    \/ RaceStat(p)
    \/ RaceOpen(p)
    \/ RaceRead(p)
    \/ RaceFetch(p)
    \/ RaceCreate(p)
    \/ RaceWrite(p)
    \/ RaceSync(p)
    \/ RaceRename(p)
    \/ RaceWriteFails(p)

SpecRace == RaceInit /\ [][RaceNext]_<<raceVars, outsideRace>>

\* the bodies processes other than p have renamed into place
RenamedBodies == {rproc[q].body : q \in {r \in Procs : rproc[r].renamed}}

\* C11: when processes race on one date key, a reader gets the complete
\* body that was there before or the complete body of one writer, and the
\* entry is the complete body of the writer whose rename came last.
C11_RaceWholeBodies ==
  /\ \A p \in Procs :
       rproc[p].read => rproc[p].got \in OldBodies \cup RenamedBodies
  /\ lastRename # 0 =>
       /\ rentry = lastRename
       /\ inodes[rentry] = rproc[lastRename].body
       /\ rproc[lastRename].body \in RaceBodies
  /\ lastRename = 0 =>
       /\ rentry \in {NoInode, OldInode}
       /\ rentry = OldInode => inodes[rentry] \in OldBodies

C11_Witness ==
  \E p, q \in Procs :
    /\ p # q
    /\ rproc[p].renamed /\ rproc[q].renamed
    /\ rproc[p].body # rproc[q].body
    /\ rproc[p].read
    /\ lastRename = q
    /\ inodes[rentry] = rproc[q].body

(***************************************************************************)
(* generateEventList (main.go 619-659) and the goroutine it starts,        *)
(* displayLoadingAnimation (main.go 474-518).  The done channel is         *)
(* unbuffered: the send and the receive are one step.  Every write to the  *)
(* terminal is a step of its own.                                          *)
(***************************************************************************)
\* timer expiries of the animation in one behaviour
MaxTicks == 2

\* len(loadingSteps)
NumLoadingSteps == 4

Outcomes == {"error", "empty", "events"}

\* variant of MainWrites: the no-events path prints the error message
MainWritesOneMessage(o) ==
  IF o = "error" \/ o = "empty"
  THEN <<"ClearScreen", "MoveCursor(1,8)", "Error fetching events",
         "Please check your internet connection", "MoveCursor(1,24)", "prompt">>
  ELSE <<"RenderEvents">>

\* what generateEventList writes after wg.Wait(), by what the fetch returned
MainWrites(o) ==
  IF o = "error"
  THEN <<"ClearScreen", "MoveCursor(1,8)", "Error fetching events",
         "Please check your internet connection", "MoveCursor(1,24)", "prompt">>
  ELSE IF o = "empty"
  THEN <<"ClearScreen", "MoveCursor(1,8)", "No historical events found for today.",
         "MoveCursor(1,24)", "prompt">>
  ELSE <<"RenderEvents">>

Wr(who, what) == [who |-> who, what |-> what]

outsideLoader == <<vars, raceVars, selVars, wrapVars, layoutVars, jitterVars>>

\* variant of WaitReturns: wg.Wait() does not wait
WaitReturnsAtOnce(w) == TRUE

\* wg.Wait() returns when the counter is zero
WaitReturns(w) == w = 0

\* done := make(chan bool); wg.Add(1); go displayLoadingAnimation(done, &wg)
GoLoader ==
  /\ mpc = "start"
  /\ mpc' = "fetch"
  /\ doneCh' = "open"
  /\ wg' = wg + 1
  /\ lpc' = "select"
  /\ UNCHANGED <<stepIndex, ticks, outcome, mout, display>>
  /\ UNCHANGED outsideLoader

\* events, err := wikiClient.FetchOnThisDay(...); cancel()
FetchReturns(o) ==
  /\ mpc = "fetch"
  /\ mpc' = "send"
  /\ outcome' = o
  /\ UNCHANGED <<lpc, doneCh, wg, stepIndex, ticks, mout, display>>
  /\ UNCHANGED outsideLoader

\* done <- true meets case <-done of the select
SendDone ==
  /\ mpc = "send"
  /\ lpc = "select"
  /\ doneCh = "open"
  /\ mpc' = "close"
  /\ lpc' = "d_move"
  /\ UNCHANGED <<doneCh, wg, stepIndex, ticks, outcome, mout, display>>
  /\ UNCHANGED outsideLoader

\* close(done)
CloseDone ==
  /\ mpc = "close"
  /\ mpc' = "wait"
  /\ doneCh' = "closed"
  /\ UNCHANGED <<lpc, wg, stepIndex, ticks, outcome, mout, display>>
  /\ UNCHANGED outsideLoader

\* wg.Wait()
WgWait ==
  /\ mpc = "wait"
  /\ WaitReturns(wg)
  /\ mpc' = "out"
  /\ UNCHANGED <<lpc, doneCh, wg, stepIndex, ticks, outcome, mout, display>>
  /\ UNCHANGED outsideLoader

\* the next write of the error path, the no-events path or the rendering
MainWrite ==
  /\ mpc = "out"
  /\ mout < Len(MainWrites(outcome))
  /\ display' = Append(display, Wr("main", MainWrites(outcome)[mout + 1]))
  /\ mout' = mout + 1
  /\ mpc' = IF mout + 1 = Len(MainWrites(outcome)) THEN "returned" ELSE "out"
  /\ UNCHANGED <<lpc, doneCh, wg, stepIndex, ticks, outcome>>
  /\ UNCHANGED outsideLoader

\* case <-time.After(delay) of the select
LoaderTick ==
  /\ lpc = "select"
  /\ ticks < MaxTicks
  /\ ticks' = ticks + 1
  /\ lpc' = "t_move"
  /\ UNCHANGED <<mpc, doneCh, wg, stepIndex, outcome, mout, display>>
  /\ UNCHANGED outsideLoader

\* MoveCursor(1, loadingBarRow); fmt.Print(Esc + "K"); fmt.Print(bar);
\* stepIndex = (stepIndex + 1) % len(loadingSteps)
LoaderDraw ==
  /\ lpc \in {"t_move", "t_clear", "t_bar"}
  /\ display' = Append(display, Wr("loader", lpc))
  /\ lpc' = IF lpc = "t_move" THEN "t_clear" ELSE IF lpc = "t_clear" THEN "t_bar" ELSE "select"
  /\ stepIndex' = IF lpc = "t_bar" THEN (stepIndex + 1) % NumLoadingSteps ELSE stepIndex
  /\ UNCHANGED <<mpc, doneCh, wg, ticks, outcome, mout>>
  /\ UNCHANGED outsideLoader

\* after case <-done: MoveCursor(1, loadingBarRow); fmt.Print(Esc + "K")
LoaderClear ==
  /\ lpc \in {"d_move", "d_clear"}
  /\ display' = Append(display, Wr("loader", lpc))
  /\ lpc' = IF lpc = "d_move" THEN "d_clear" ELSE "d_done"
  /\ UNCHANGED <<mpc, doneCh, wg, stepIndex, ticks, outcome, mout>>
  /\ UNCHANGED outsideLoader

\* variant of LoaderWgDone: the indicator returns without wg.Done()
LoaderReturnsWithoutDone ==
  /\ lpc = "d_done"
  /\ lpc' = "returned"
  /\ UNCHANGED <<mpc, doneCh, wg, stepIndex, ticks, outcome, mout, display>>
  /\ UNCHANGED outsideLoader

\* wg.Done(); return
LoaderWgDone ==
  /\ lpc = "d_done"
  /\ wg' = wg - 1
  /\ lpc' = "returned"
  /\ UNCHANGED <<mpc, doneCh, stepIndex, ticks, outcome, mout, display>>
  /\ UNCHANGED outsideLoader

\* main: generateEventList has returned; _, err := tty.ReadRune() blocks
\* until a key arrives
ReadRune ==
  /\ mpc = "returned"
  /\ mpc' = "readrune"
  /\ UNCHANGED <<lpc, doneCh, wg, stepIndex, ticks, outcome, mout, display>>
  /\ UNCHANGED outsideLoader

\* a key arrives: os.Exit(0)
KeyPressed ==
  /\ mpc = "readrune"
  /\ mpc' = "exited"
  /\ UNCHANGED <<lpc, doneCh, wg, stepIndex, ticks, outcome, mout, display>>
  /\ UNCHANGED outsideLoader

\* tty.ReadRune() returns an error: log.Fatal(err)
ReadRuneFails ==
  /\ mpc = "readrune"
  /\ mpc' = "fatal"
  /\ UNCHANGED <<lpc, doneCh, wg, stepIndex, ticks, outcome, mout, display>>
  /\ UNCHANGED outsideLoader

\* nothing else runs meanwhile
LoaderInit ==
  /\ LoaderIdle
  /\ FetchIdle /\ RaceIdle /\ SelIdle /\ WrapIdle /\ LayoutIdle /\ JitterIdle

LoaderNext ==
  \/ GoLoader
  \/ \E o \in Outcomes : FetchReturns(o)
  \/ SendDone
  \/ CloseDone
  \/ WgWait
  \/ MainWrite
  \/ LoaderTick
  \/ LoaderDraw
  \/ LoaderClear
  \/ LoaderWgDone
  \/ ReadRune
  \/ KeyPressed
  \/ ReadRuneFails

SpecLoader == LoaderInit /\ [][LoaderNext]_<<loaderVars, outsideLoader>>

WritesOf(who) == {i \in 1..Len(display) : display[i].who = who}
Signalled == lpc \in {"d_move", "d_clear", "d_done", "returned"} \/ doneCh = "closed"

\* C12: the indicator is signalled only after FetchOnThisDay returned; the
\* main flow writes to the display only after the indicator cleared its line
\* and called wg.Done(); no write of the indicator follows a write of the
\* main flow.
C12_IndicatorBeforeRender ==
  /\ Signalled => (mpc \notin {"start", "fetch"} /\ outcome \in Outcomes)
  /\ WritesOf("main") # {} =>
       /\ lpc = "returned"
       /\ wg = 0
       /\ \E i \in WritesOf("loader") :
            /\ display[i].what = "d_clear"
            /\ \A j \in WritesOf("loader") : j <= i
  /\ \A i \in WritesOf("main"), j \in WritesOf("loader") : j < i

C12_Witness ==
  /\ mpc = "returned"
  /\ outcome = "events"
  /\ ticks = MaxTicks
  /\ \E i \in WritesOf("loader") : display[i].what = "t_bar"
  /\ \E i \in WritesOf("main") : display[i].what = "RenderEvents"

(***************************************************************************)
(* The selection of the events to show: selectEventsByEra (main.go         *)
(* 390-472) and the strategy switch of generateEventList (main.go          *)
(* 661-697).  rand.Shuffle can leave the slice in any order.               *)
(***************************************************************************)
\* input lists of up to MaxEvents events are taken in every order
MaxEvents == 3

\* the number of events shown: len(selected) >= 5, events[:5]
maxSelected == 5

Ev(y, t) == [Year |-> y, Text |-> t]

\* events of the five eras (two on the border of two eras, two of one
\* year) and one of no era
EvA == Ev(500, "a")
EvM == Ev(501, "m")
EvE == Ev(1600, "e")
EvO == Ev(1900, "o")
EvP == Ev(1900, "p")
EvC == Ev(2000, "c")
EvX == Ev(0, "x")
EventPool == {EvA, EvM, EvE, EvO, EvP, EvC, EvX}

\* longer lists: all eras, more events than are shown, repeated events
LongInputs ==
  { <<EvC, EvA, EvP, EvX, EvE, EvM>>,
    <<EvM, EvE, EvO, EvA, EvC>>,
    <<EvP, EvX, EvO, EvX, EvP, EvO>>,
    <<EvX, EvC, EvO, EvP, EvO, EvA>>,
    <<EvX, EvO, EvP, EvC, EvA, EvM>> }

RECURSIVE ListsUpTo(_)
ListsUpTo(n) ==
  IF n = 0 THEN {<<>>}
  ELSE LET shorter == ListsUpTo(n - 1) IN
         shorter \cup {Append(l, e) : l \in {x \in shorter : Len(x) = n - 1}, e \in EventPool}

InputLists == ListsUpTo(MaxEvents) \cup LongInputs

\* -strategy is not validated: any name reaches generateEventList
Strategies == {"era-based", "random", "oldest-first", "source-balanced"}

\* eras := []eraDef{...}
Eras ==
  << [name |-> "Ancient", min |-> 1, max |-> 500, quota |-> 1],
     [name |-> "Medieval", min |-> 501, max |-> 1500, quota |-> 1],
     [name |-> "Early Modern", min |-> 1501, max |-> 1800, quota |-> 1],
     [name |-> "Modern", min |-> 1801, max |-> 1950, quota |-> 1],
     [name |-> "Contemporary", min |-> 1951, max |-> 2030, quota |-> 1] >>

\* keyFor: fmt.Sprintf("%d|%s", e.Year, e.Text); the year has no "|", so two
\* keys are equal exactly when year and text are
keyFor(e) == <<e.Year, e.Text>>

\* the orders rand.Shuffle can leave a slice of the indices S in
RECURSIVE Perms(_)
Perms(S) ==
  IF S = {} THEN {<<>>}
  ELSE UNION {{<<x>> \o q : q \in Perms(S \ {x})} : x \in S}

\* rand.Shuffle(len(s), swap) on the slice s
ShufflesOf(s) == {[i \in 1..Len(s) |-> s[q[i]]] : q \in Perms(1..Len(s))}

\* variant of Less: nothing is ever less, the sort leaves the slice as it is
LessNever(a, b) == FALSE

\* variant of Less: equal years count as less, the sort is not stable
LessOrEqual(a, b) == a.Year <= b.Year

\* the less function of both sort.SliceStable calls
Less(a, b) == a.Year < b.Year

\* sort.SliceStable(s, less): s[n] goes behind every element it is not less
\* than
RECURSIVE SortStableByYear(_)
SortStableByYear(s) ==
  IF Len(s) <= 1 THEN s
  ELSE LET r == SortStableByYear(SubSeq(s, 1, Len(s) - 1))
           e == s[Len(s)]
           k == Cardinality({i \in 1..Len(r) : ~Less(e, r[i])})
       IN SubSeq(r, 1, k) \o <<e>> \o SubSeq(r, k + 1, Len(r))

\* variant of Eligible: the last year of an era is left out
EligibleBelowMax(all, era) ==
  {i \in 1..Len(all) : all[i].Year >= era.min /\ all[i].Year < era.max}

\* eraEvents: ev.Year >= era.min && ev.Year <= era.max
Eligible(all, era) ==
  {i \in 1..Len(all) : all[i].Year >= era.min /\ all[i].Year <= era.max}

seenOf(sel) == {keyFor(sel[i]) : i \in 1..Len(sel)}

\* for qi := 0; qi < era.quota && qi < len(eraEvents); qi++ { ... } on the
\* shuffled eraEvents q, from qi on
RECURSIVE PickQuota(_, _, _, _, _)
PickQuota(all, q, quota, qi, sel) ==
  IF qi > quota \/ qi > Len(q) THEN sel
  ELSE LET ev == all[q[qi]]
           sel2 == IF keyFor(ev) \notin seenOf(sel) THEN Append(sel, ev) ELSE sel
       IN IF Len(sel2) >= maxSelected THEN sel2
          ELSE PickQuota(all, q, quota, qi + 1, sel2)

\* first pass, from era e on: the values selected can have after it (every
\* event appended in this pass is marked seen)
RECURSIVE EraPass(_, _, _)
EraPass(all, e, sel) ==
  IF e > Len(Eras) \/ (e > 1 /\ Len(sel) >= maxSelected) THEN {sel}
  ELSE IF Eligible(all, Eras[e]) = {} THEN EraPass(all, e + 1, sel)
  ELSE UNION {EraPass(all, e + 1, PickQuota(all, q, Eras[e].quota, 1, sel)) :
                q \in Perms(Eligible(all, Eras[e]))}

\* variant of Need: the second pass takes nothing
NeedNone(sel, remaining) == 0

\* need := 5 - len(selected), at most len(remaining)
Need(sel, remaining) ==
  IF maxSelected - Len(sel) > Cardinality(remaining)
  THEN Cardinality(remaining) ELSE maxSelected - Len(sel)

\* second pass: fill the remaining slots from the indices whose key is not
\* seen; the events appended here are not marked seen
FillPass(all, sel) ==
  IF Len(sel) < maxSelected
  THEN LET remaining == {i \in 1..Len(all) : keyFor(all[i]) \notin seenOf(sel)} IN
         IF remaining # {}
         THEN {sel \o [i \in 1..Need(sel, remaining) |-> all[q[i]]] : q \in Perms(remaining)}
         ELSE {sel}
  ELSE {sel}

\* the slices selectEventsByEra can return when the first pass selected sel
EraReturns(all, sel) == {SortStableByYear(f) : f \in FillPass(all, sel)}

\* the slices selectEventsByEra(allEvents) can return; nil is <<>>
selectEventsByEra(all) ==
  IF Len(all) = 0 THEN {<<>>}
  ELSE UNION {EraReturns(all, sel) : sel \in EraPass(all, 1, <<>>)}

\* variant of Truncate: the list is never cut
TruncateNever(s) == s

\* if len(events) > 5 { events = events[:5] }
Truncate(s) == IF Len(s) > maxSelected THEN SubSeq(s, 1, maxSelected) ELSE s

\* variant of ResolveStrategy: the strategy is taken as named
ResolveStrategyAsNamed(st, sh) == st

\* if shuffle && strategy == "oldest-first" { strategy = "random" }
ResolveStrategy(st, sh) == IF sh /\ st = "oldest-first" THEN "random" ELSE st

\* if sel := selectEventsByEra(events); len(sel) > 0 { events = sel }
EraBranch(all, sel) == IF Len(sel) > 0 THEN sel ELSE all

\* the switch on the resolved strategy: the values events can have after it
Selection(all, st) ==
  IF st = "random"
  THEN {Truncate(s) : s \in (IF Len(all) > 1 THEN ShufflesOf(all) ELSE {all})}
  ELSE IF st = "oldest-first"
  THEN {Truncate(IF Len(all) > 1 THEN SortStableByYear(all) ELSE all)}
  ELSE {EraBranch(all, sel) : sel \in selectEventsByEra(all)}

\* if shuffle && len(events) > 1 { rand.Shuffle(...) }
FinalShuffle(s, sh) == IF sh /\ Len(s) > 1 THEN ShufflesOf(s) ELSE {s}

\* the lists generateEventList can hand to RenderEvents
Outputs(all, st, sh) ==
  UNION {FinalShuffle(s, sh) : s \in Selection(all, ResolveStrategy(st, sh))}

SelInit ==
  /\ allEvents \in InputLists
  /\ strategy \in Strategies
  /\ shuffle \in BOOLEAN
  /\ eraSelected = <<>>
  /\ selected = <<>>
  /\ events = allEvents
  /\ spc = "input"
  /\ FetchIdle /\ RaceIdle /\ LoaderIdle /\ WrapIdle /\ LayoutIdle /\ JitterIdle

outsideSel == <<vars, raceVars, loaderVars, wrapVars, layoutVars, jitterVars>>

\* a call selectEventsByEra(allEvents), on any list
CallSelectEventsByEra ==
  /\ spc = "input"
  /\ \E sel \in (IF Len(allEvents) = 0 THEN {<<>>} ELSE EraPass(allEvents, 1, <<>>)) :
       /\ eraSelected' = sel
       /\ selected' \in (IF Len(allEvents) = 0 THEN {<<>>} ELSE EraReturns(allEvents, sel))
  /\ spc' = "selected"
  /\ UNCHANGED <<allEvents, strategy, shuffle, events>>
  /\ UNCHANGED outsideSel

\* generateEventList past the len(events) == 0 return, case "era-based" and
\* default of the switch, then the final shuffle
ApplyEraBased ==
  /\ spc = "input"
  /\ Len(allEvents) > 0
  /\ ResolveStrategy(strategy, shuffle) \notin {"random", "oldest-first"}
  /\ events' \in Outputs(allEvents, strategy, shuffle)
  /\ spc' = "listed"
  /\ UNCHANGED <<allEvents, strategy, shuffle, eraSelected, selected>>
  /\ UNCHANGED outsideSel

\* generateEventList past the len(events) == 0 return, case "random", then
\* the final shuffle
ApplyRandom ==
  /\ spc = "input"
  /\ Len(allEvents) > 0
  /\ ResolveStrategy(strategy, shuffle) = "random"
  /\ events' \in Outputs(allEvents, strategy, shuffle)
  /\ spc' = "listed"
  /\ UNCHANGED <<allEvents, strategy, shuffle, eraSelected, selected>>
  /\ UNCHANGED outsideSel

\* generateEventList past the len(events) == 0 return, case "oldest-first",
\* then the final shuffle
ApplyOldestFirst ==
  /\ spc = "input"
  /\ Len(allEvents) > 0
  /\ ResolveStrategy(strategy, shuffle) = "oldest-first"
  /\ events' \in Outputs(allEvents, strategy, shuffle)
  /\ spc' = "listed"
  /\ UNCHANGED <<allEvents, strategy, shuffle, eraSelected, selected>>
  /\ UNCHANGED outsideSel

SelNext ==
  \/ CallSelectEventsByEra
  \/ ApplyEraBased
  \/ ApplyRandom
  \/ ApplyOldestFirst

SpecSelect == SelInit /\ [][SelNext]_<<selVars, outsideSel>>

EraReturned == spc = "selected"

SortedByYear(s) == \A i, j \in 1..Len(s) : i < j => s[i].Year <= s[j].Year

\* C13: selectEventsByEra returns at most 5 events, sorted ascending by
\* year.
C13_EraAtMostFiveSorted ==
  EraReturned => (Len(selected) <= maxSelected /\ SortedByYear(selected))

C13_Witness ==
  /\ EraReturned
  /\ Len(allEvents) > maxSelected
  /\ Len(selected) = maxSelected
  /\ Len(eraSelected) < maxSelected
  /\ \E i \in 1..Len(allEvents) - 1 : allEvents[i].Year > allEvents[i + 1].Year
  /\ \E i \in 1..Len(selected) - 1 : selected[i].Year < selected[i + 1].Year

NoDuplicates(s) == \A i, j \in 1..Len(s) : i # j => keyFor(s[i]) # keyFor(s[j])

\* C14: the slice selectEventsByEra returns holds no two events with the
\* same (year, text) pair, also when the input holds a pair more than once.
C14_EraNoDuplicates ==
  EraReturned => NoDuplicates(selected)

\* the years of the five eras
EraYears == <<1..500, 501..1500, 1501..1800, 1801..1950, 1951..2030>>

OfEra(s, e) == {i \in 1..Len(s) : s[i].Year \in EraYears[e]}

\* an input event that falls in an era has an event of that era in s
EveryEraIn(s) ==
  \A e \in 1..Len(EraYears) : OfEra(allEvents, e) # {} => OfEra(s, e) # {}

\* s holds the events of t, each at least as often as t does
Holds(s, t) ==
  \A e \in EventPool :
    Cardinality({i \in 1..Len(s) : s[i] = e}) >= Cardinality({i \in 1..Len(t) : t[i] = e})

\* C15: every era that has an input event contributes an event in the first
\* pass, before the second pass fills the remaining slots, and the events
\* of the first pass are in the slice returned; an input of at least 5
\* events that spans all five eras yields an event of each era.
C15_EveryEraContributes ==
  EraReturned =>
    /\ EveryEraIn(eraSelected)
    /\ NoDuplicates(eraSelected)
    /\ Holds(selected, eraSelected)
    /\ EveryEraIn(selected)
    /\ (Len(allEvents) >= maxSelected /\ \A e \in 1..Len(EraYears) : OfEra(allEvents, e) # {})
         => \A e \in 1..Len(EraYears) : OfEra(selected, e) # {}

C15_Witness ==
  /\ EraReturned
  /\ Len(allEvents) > maxSelected
  /\ \A e \in 1..Len(EraYears) : OfEra(allEvents, e) # {}
  /\ \A e \in 1..Len(EraYears) : Cardinality(OfEra(selected, e)) = 1
  /\ EvA \in {selected[i] : i \in 1..Len(selected)}
  /\ EvM \in {selected[i] : i \in 1..Len(selected)}

Listed == spc = "listed"

Min(a, b) == IF a < b THEN a ELSE b

\* the place of allEvents[i] in the stable ascending order by year
RankByYear(all, i) ==
  1 + Cardinality({j \in 1..Len(all) :
                     \/ all[j].Year < all[i].Year
                     \/ (all[j].Year = all[i].Year /\ j < i)})

\* the first min(5, n) events of the stable ascending order by year
OldestFirstExpected(all) ==
  [k \in 1..Min(maxSelected, Len(all)) |->
     all[CHOOSE i \in 1..Len(all) : RankByYear(all, i) = k]]

\* C16: with strategy oldest-first and no shuffle the list shown is, for
\* every input, the first min(5, n) events of the stable ascending sort by
\* year: one possible output, sorted, of length at most 5.
C16_OldestFirstDeterministic ==
  (Listed /\ strategy = "oldest-first" /\ ~shuffle) =>
    /\ events = OldestFirstExpected(allEvents)
    /\ Outputs(allEvents, strategy, shuffle) = {OldestFirstExpected(allEvents)}
    /\ SortedByYear(events)
    /\ Len(events) <= maxSelected

C16_Witness ==
  /\ Listed /\ strategy = "oldest-first" /\ ~shuffle
  /\ Len(allEvents) > maxSelected
  /\ ~SortedByYear(allEvents)
  /\ \E i \in 1..Len(events) - 1 :
       events[i].Year = events[i + 1].Year /\ events[i].Text # events[i + 1].Text

\* the lists a strategy taken by its name yields
NamedOutputs(all, st, sh) == UNION {FinalShuffle(s, sh) : s \in Selection(all, st)}

\* C17: oldest-first with shuffle has the outputs of random with shuffle; a
\* name other than era-based, random and oldest-first has the outputs of
\* era-based; every other combination has the outputs of the strategy named.
C17_StrategyResolution ==
  (spc = "input" /\ Len(allEvents) > 0) =>
    Outputs(allEvents, strategy, shuffle) =
      IF strategy = "oldest-first" /\ shuffle
      THEN NamedOutputs(allEvents, "random", TRUE)
      ELSE IF strategy \notin {"era-based", "random", "oldest-first"}
      THEN NamedOutputs(allEvents, "era-based", shuffle)
      ELSE NamedOutputs(allEvents, strategy, shuffle)

C17_Witness ==
  /\ Listed /\ strategy = "oldest-first" /\ shuffle
  /\ Len(allEvents) > maxSelected
  /\ ~Holds(OldestFirstExpected(allEvents), events)

\* C18: with strategy random the list shown has min(5, n) events, each from
\* a position of its own of the input (no event occurs in it more often than
\* in the input).
C18_RandomTakesMinFive ==
  (Listed /\ strategy = "random") =>
    /\ Len(events) = Min(maxSelected, Len(allEvents))
    /\ Holds(allEvents, events)

C18_Witness ==
  /\ Listed /\ strategy = "random"
  /\ Len(allEvents) > maxSelected
  /\ Len(events) = maxSelected
  /\ ~SortedByYear(events)
  /\ ~NoDuplicates(events)

(***************************************************************************)
(* wrapText (terminal package, part_003 69-122; main.go 318-385 is the     *)
(* same algorithm).  A text is a sequence of runes; the function works on  *)
(* []rune throughout, so a rune is never split.                            *)
(***************************************************************************)
\* texts of up to MaxTextLen runes
MaxTextLen == 7
\* maxWidth is drawn from -1..MaxWidth
MaxWidth == 5

\* runes of a text: two letters and the space
Runes == {"a", "b", " "}
Ellipsis == <<".", ".", ".">>

RECURSIVE TextsUpTo(_)
TextsUpTo(n) ==
  IF n = 0 THEN {<<>>}
  ELSE LET shorter == TextsUpTo(n - 1) IN
         shorter \cup {Append(t, c) : t \in {x \in shorter : Len(x) = n - 1}, c \in Runes}

Widths == (0 - 1)..MaxWidth

\* longer texts: a word of more than MaxWidth - 1 runes as the middle, the
\* first and the last word
LongTexts ==
  { <<"b", " ", "a", "a", "a", "a", "a", " ", "b">>,
    <<"a", "a", "a", "a", "a", "a", " ", "b", "b">>,
    <<"a", " ", "b", " ", "a", "b", "a", "b", "a", "b">> }

\* unicode.IsSpace
IsSpace(c) == c = " "

\* strings.Fields(text): the maximal runs of non-space runes, in order
WordStarts(t) == {i \in 1..Len(t) : ~IsSpace(t[i]) /\ (i = 1 \/ IsSpace(t[i - 1]))}
WordEnds(t) == {i \in 1..Len(t) : ~IsSpace(t[i]) /\ (i = Len(t) \/ IsSpace(t[i + 1]))}
NthOf(S, k) == CHOOSE i \in S : Cardinality({j \in S : j < i}) = k - 1
Fields(t) ==
  [k \in 1..Cardinality(WordStarts(t)) |->
     SubSeq(t, NthOf(WordStarts(t), k), NthOf(WordEnds(t), k))]

\* variant of TooLong: the word is kept whole
TooLongWhole(wr, maxWidth) == wr

\* variant of TooLong: the word is cut at maxWidth, without the ellipsis
TooLongNoEllipsis(wr, maxWidth) == SubSeq(wr, 1, maxWidth)

\* the line made of a word of more than maxWidth runes:
\* wr[:maxWidth-3] + "..." if maxWidth > 3, else wr[:maxWidth]
TooLong(wr, maxWidth) ==
  IF maxWidth > 3
  THEN SubSeq(wr, 1, maxWidth - 3) \o Ellipsis
  ELSE SubSeq(wr, 1, maxWidth)

\* a word meets an empty current line: it becomes the current line, or, too
\* long, a line of its own
StartLine(wr, maxWidth, lines) ==
  IF Len(wr) <= maxWidth
  THEN [lines |-> lines, current |-> wr]
  ELSE [lines |-> Append(lines, TooLong(wr, maxWidth)), current |-> <<>>]

\* variant of WrapWord: a word never joins the current line
WrapWordNoFill(wr, maxWidth, lines, current) ==
  IF Len(current) = 0
  THEN StartLine(wr, maxWidth, lines)
  ELSE StartLine(wr, maxWidth, Append(lines, current))

\* the body of for _, word := range words
WrapWord(wr, maxWidth, lines, current) ==
  IF Len(current) = 0
  THEN StartLine(wr, maxWidth, lines)
  ELSE IF Len(current) + 1 + Len(wr) <= maxWidth
  THEN [lines |-> lines, current |-> current \o <<" ">> \o wr]
  ELSE StartLine(wr, maxWidth, Append(lines, current))

\* the loop over words from word k on
RECURSIVE WrapWords(_, _, _, _, _)
WrapWords(words, k, maxWidth, lines, current) ==
  IF k > Len(words) THEN [lines |-> lines, current |-> current]
  ELSE LET st == WrapWord(words[k], maxWidth, lines, current) IN
         WrapWords(words, k + 1, maxWidth, st.lines, st.current)

wrapText(text, maxWidth) ==
  IF maxWidth <= 0 THEN <<text>>
  ELSE IF Len(text) <= maxWidth THEN <<text>>
  ELSE LET words == Fields(text) IN
    IF Len(words) = 0 THEN << <<>> >>
    ELSE LET st == WrapWords(words, 1, maxWidth, <<>>, <<>>)
             lines == IF Len(st.current) > 0 THEN Append(st.lines, st.current) ELSE st.lines
         IN IF Len(lines) = 0 THEN << <<>> >> ELSE lines

WrapInit ==
  /\ wtext \in TextsUpTo(MaxTextLen) \cup LongTexts
  /\ wwidth \in Widths
  /\ wlines = <<>>
  /\ wpc = "input"
  /\ FetchIdle /\ RaceIdle /\ LoaderIdle /\ SelIdle /\ LayoutIdle /\ JitterIdle

outsideWrap == <<vars, raceVars, loaderVars, selVars, layoutVars, jitterVars>>

\* a call wrapText(text, maxWidth)
CallWrapText ==
  /\ wpc = "input"
  /\ wlines' = wrapText(wtext, wwidth)
  /\ wpc' = "wrapped"
  /\ UNCHANGED <<wtext, wwidth>>
  /\ UNCHANGED outsideWrap

WrapNext == CallWrapText

SpecWrap == WrapInit /\ [][WrapNext]_<<wrapVars, outsideWrap>>

Wrapped == wpc = "wrapped"

\* C20 as stated: for every text and every max width, wrapText returns at
\* least one line and no line has more runes than the max width.
C20_LinesWithinAnyWidth ==
  Wrapped => (Len(wlines) >= 1 /\ \A i \in 1..Len(wlines) : Len(wlines[i]) <= wwidth)

\* C20, for the widths a line can have: wrapText always returns at least one
\* line; for a max width of at least 1 no line has more runes than the max
\* width; for a max width of 0 or less the text comes back as the only line.
C20_LinesWithinPositiveWidth ==
  Wrapped =>
    /\ Len(wlines) >= 1
    /\ wwidth >= 1 => \A i \in 1..Len(wlines) : Len(wlines[i]) <= wwidth
    /\ wwidth <= 0 => wlines = <<wtext>>

C20_Witness ==
  /\ Wrapped
  /\ wwidth > 3
  /\ Len(wtext) > wwidth
  /\ Len(wlines) >= 2
  /\ \E i \in 1..Len(wlines) : wlines[i] = <<"a">> \o Ellipsis
  /\ \E i \in 1..Len(wlines) : Len(wlines[i]) = 1

(***************************************************************************)
(* RenderEvents (terminal package, part_003 126-189): the acceptance loop  *)
(* and the rows the accepted events are drawn on.                          *)
(***************************************************************************)
\* event lists of up to MaxRendered events are taken in every combination
MaxRendered == 3

\* const maxContentRows = 12
maxContentRows == 12
\* const prefixDisplayLength = 10
prefixDisplayLength == 10
\* const maxLineLength = 75 - prefixDisplayLength
maxLineLength == 75 - prefixDisplayLength
\* len(selected) < 5
maxAccepted == 5
\* yPos := 8
firstRow == 8
\* MoveCursor(1, 20), MoveCursor(1, 21), MoveCursor(1, 22), MoveCursor(1, 24)
FooterRows == <<20, 21, 22, 24>>

\* a word two of which do not fit on one line
LongWord == [i \in 1..(maxLineLength \div 2 + 1) |-> "a"]

\* a text that wraps to n lines
RECURSIVE TextOfLines(_)
TextOfLines(n) ==
  IF n <= 1 THEN LongWord ELSE TextOfLines(n - 1) \o <<" ">> \o LongWord

\* texts of events: a short one with spaces around it, and texts of 2, 5,
\* 11 and 12 lines
EventTexts ==
  { <<" ", "a", " ", "b", " ">>, TextOfLines(2), TextOfLines(5),
    TextOfLines(11), TextOfLines(12) }
ShortText == <<" ", "a", " ", "b", " ">>

RECURSIVE EventListsUpTo(_)
EventListsUpTo(n) ==
  IF n = 0 THEN {<<>>}
  ELSE LET shorter == EventListsUpTo(n - 1) IN
         shorter \cup {Append(l, Ev(1969, t)) : l \in {x \in shorter : Len(x) = n - 1},
                                                t \in EventTexts}

\* longer lists: more events than are shown; the row budget used up by
\* four events
LongEventLists ==
  { [i \in 1..6 |-> Ev(1969, ShortText)],
    [i \in 1..5 |-> Ev(1969, IF i <= 4 THEN TextOfLines(2) ELSE ShortText)],
    [i \in 1..6 |-> Ev(1969, IF i = 5 THEN TextOfLines(2) ELSE ShortText)],
    [i \in 1..4 |-> Ev(1969, IF i = 2 THEN TextOfLines(11) ELSE ShortText)] }

\* strings.TrimSpace
TrimSpace(t) ==
  LET keep == {i \in 1..Len(t) : ~IsSpace(t[i])} IN
    IF keep = {} THEN <<>>
    ELSE SubSeq(t, CHOOSE i \in keep : \A j \in keep : i <= j,
                   CHOOSE i \in keep : \A j \in keep : j <= i)

\* wrapped := wrapText(strings.TrimSpace(e.Text), maxLineLength)
WrappedOf(e) == wrapText(TrimSpace(e.Text), maxLineLength)

\* eventRows := len(wrapped) + 1
EventRows(e) == Len(WrappedOf(e)) + 1

RECURSIVE AcceptFrom(_, _, _, _)

\* variant of OnReject: the loop goes on with the next event
OnRejectContinue(evs, k, total, sel) == AcceptFrom(evs, k + 1, total, sel)

\* else { break }
OnReject(evs, k, total, sel) == [selected |-> sel, total |-> total]

\* for _, e := range events { ... }, from event k on
AcceptFrom(evs, k, total, sel) ==
  IF k > Len(evs) THEN [selected |-> sel, total |-> total]
  ELSE IF total + EventRows(evs[k]) <= maxContentRows /\ Len(sel) < maxAccepted
  THEN AcceptFrom(evs, k + 1, total + EventRows(evs[k]), Append(sel, evs[k]))
  ELSE OnReject(evs, k, total, sel)

Drawn(row, what, ev, line) == [row |-> row, what |-> what, ev |-> ev, line |-> line]

\* for _, e := range selected { ... }, from event k on at row yPos: every
\* line of the event on a row of its own, then a blank row
RECURSIVE DrawFrom(_, _, _)
DrawFrom(sel, k, yPos) ==
  IF k > Len(sel) THEN <<>>
  ELSE LET n == Len(WrappedOf(sel[k])) IN
         [i \in 1..n |-> Drawn(yPos + i - 1, "text", k, i)] \o DrawFrom(sel, k + 1, yPos + n + 1)

DrawFooter == [i \in 1..Len(FooterRows) |-> Drawn(FooterRows[i], "footer", 0, 0)]

LayoutInit ==
  /\ revents \in EventListsUpTo(MaxRendered) \cup LongEventLists
  /\ accepted = <<>>
  /\ totalRowsUsed = 0
  /\ drawn = <<>>
  /\ rpc = "input"
  /\ FetchIdle /\ RaceIdle /\ LoaderIdle /\ SelIdle /\ WrapIdle /\ JitterIdle

outsideLayout == <<vars, raceVars, loaderVars, selVars, wrapVars, jitterVars>>

\* a call RenderEvents(cfg, events)
CallRenderEvents ==
  /\ rpc = "input"
  /\ LET acc == AcceptFrom(revents, 1, 0, <<>>) IN
       /\ accepted' = acc.selected
       /\ totalRowsUsed' = acc.total
       /\ drawn' = DrawFrom(acc.selected, 1, firstRow) \o DrawFooter
  /\ rpc' = "rendered"
  /\ UNCHANGED revents
  /\ UNCHANGED outsideLayout

LayoutNext == CallRenderEvents

SpecLayout == LayoutInit /\ [][LayoutNext]_<<layoutVars, outsideLayout>>

Rendered == rpc = "rendered"

\* rows of the first n events: (number of wrapped lines) + 1 each
RECURSIVE RowCost(_, _)
RowCost(evs, n) ==
  IF n = 0 THEN 0
  ELSE RowCost(evs, n - 1) + Len(wrapText(TrimSpace(evs[n].Text), 65)) + 1

PrefixFits(evs, n) == n <= 5 /\ RowCost(evs, n) <= 12

TextRows == {drawn[i].row : i \in {j \in 1..Len(drawn) : drawn[j].what = "text"}}

\* C19: the accepted events are the longest prefix of the input whose row
\* cost (wrapped lines + 1 per event) is at most 12 and whose length is at
\* most 5; nothing after the first event that does not fit is accepted;
\* every text line is drawn on a row of its own in 8..18.
C19_LayoutAcceptance ==
  Rendered =>
    /\ \E n \in 0..Len(revents) :
         /\ accepted = SubSeq(revents, 1, n)
         /\ PrefixFits(revents, n)
         /\ n < Len(revents) => ~PrefixFits(revents, n + 1)
         /\ totalRowsUsed = RowCost(revents, n)
         /\ Cardinality(TextRows) = RowCost(revents, n) - n
    /\ TextRows \subseteq 8..18
    /\ \A i, j \in 1..Len(drawn) : (i # j /\ drawn[i].what = "text") => drawn[i].row # drawn[j].row

C19_Witness ==
  /\ Rendered
  /\ Len(revents) = 4
  /\ Len(accepted) = 1
  /\ EventRows(revents[2]) = 12
  /\ EventRows(revents[3]) = 2
  /\ TextRows = {8}

\* the words of a text, read rune by rune: acc are the words closed so far,
\* cur the word being read
RECURSIVE ScanWords(_, _, _, _)
ScanWords(t, i, cur, acc) ==
  IF i > Len(t) THEN (IF cur = <<>> THEN acc ELSE Append(acc, cur))
  ELSE IF t[i] = " "
  THEN ScanWords(t, i + 1, <<>>, IF cur = <<>> THEN acc ELSE Append(acc, cur))
  ELSE ScanWords(t, i + 1, Append(cur, t[i]), acc)

WordsOf(t) == ScanWords(t, 1, <<>>, <<>>)

\* the pieces joined with single spaces
RECURSIVE JoinSp(_)
JoinSp(ps) ==
  IF Len(ps) = 0 THEN <<>>
  ELSE IF Len(ps) = 1 THEN ps[1]
  ELSE ps[1] \o <<" ">> \o JoinSp(Tail(ps))

EveryWordFits(t, w) == \A k \in 1..Len(WordsOf(t)) : Len(WordsOf(t)[k]) <= w

\* the lines keep the words in order, and no line has room for the first
\* word of the next line
KeepsWordsGreedy(t, w, lines) ==
  /\ JoinSp(lines) = JoinSp(WordsOf(t))
  /\ \A i \in 1..Len(lines) - 1 :
       Len(lines[i]) + 1 + Len(WordsOf(lines[i + 1])[1]) > w

\* C21 as stated: a text no longer than the max width comes back as its only
\* line; a longer text whose words all fit comes back as lines that, joined
\* with single spaces, are its words in order, filled greedily.
C21_WrapKeepsWords ==
  Wrapped =>
    /\ Len(wtext) <= wwidth => wlines = <<wtext>>
    /\ (Len(wtext) > wwidth /\ EveryWordFits(wtext, wwidth)) =>
         KeepsWordsGreedy(wtext, wwidth, wlines)

\* C21, for a max width of at least 1.
C21_WrapKeepsWordsPositiveWidth ==
  Wrapped =>
    /\ Len(wtext) <= wwidth => wlines = <<wtext>>
    /\ (wwidth >= 1 /\ Len(wtext) > wwidth /\ EveryWordFits(wtext, wwidth)) =>
         KeepsWordsGreedy(wtext, wwidth, wlines)
    /\ wwidth <= 0 => wlines = <<wtext>>

C21_Witness ==
  /\ Wrapped
  /\ wwidth >= 1
  /\ Len(wtext) > wwidth
  /\ EveryWordFits(wtext, wwidth)
  /\ Len(WordsOf(wtext)) = 3
  /\ Len(wlines) = 2
  /\ Len(WordsOf(wlines[1])) = 2
  /\ wtext # JoinSp(WordsOf(wtext))
  /\ WordsOf(wtext)[1] # WordsOf(wtext)[2]

\* the line the claim names for a word of more than w runes
TruncatedWord(word, w) ==
  IF w > 3 THEN SubSeq(word, 1, w - 3) \o <<".", ".", ".">> ELSE SubSeq(word, 1, w)

\* the index of the line that holds the k-th word, counting the words of the
\* lines from line i on; 0 if the lines hold fewer words
RECURSIVE LineOfWord(_, _, _)
LineOfWord(lines, i, k) ==
  IF i > Len(lines) THEN 0
  ELSE IF k <= Len(WordsOf(lines[i])) THEN i
  ELSE LineOfWord(lines, i + 1, k - Len(WordsOf(lines[i])))

\* the k-th word of the text, longer than w, has a line of its own: the lines
\* hold as many words as the text, and the line of the k-th is the truncation
OwnTruncatedLine(t, w, lines, k) ==
  LET i == LineOfWord(lines, 1, k) IN
    /\ i # 0
    /\ LineOfWord(lines, 1, Len(WordsOf(t)) + 1) = 0
    /\ lines[i] = TruncatedWord(WordsOf(t)[k], w)
    /\ Len(WordsOf(lines[i])) <= 1

\* C22 as stated: for every max width, a word of more than max width runes
\* gives exactly one line holding only that word, its first maxWidth - 3 runes
\* and "..." when maxWidth > 3 and its first maxWidth runes when maxWidth <= 3.
C22_LongWordOwnLine ==
  Wrapped =>
    \A k \in 1..Len(WordsOf(wtext)) :
      Len(WordsOf(wtext)[k]) > wwidth => OwnTruncatedLine(wtext, wwidth, wlines, k)

\* C22, for a max width of at least 1: a word of more than max width runes
\* gives exactly one line holding only that word, truncated as the claim says,
\* wherever it stands; for a max width of 0 or less the text is the only line.
C22_LongWordOwnLinePositiveWidth ==
  Wrapped =>
    /\ wwidth >= 1 =>
         \A k \in 1..Len(WordsOf(wtext)) :
           Len(WordsOf(wtext)[k]) > wwidth => OwnTruncatedLine(wtext, wwidth, wlines, k)
    /\ wwidth < 1 => wlines = <<wtext>>

\* a too long word between two words, with the ellipsis
C22_Witness ==
  /\ Wrapped
  /\ wwidth > 3
  /\ Len(WordsOf(wtext)) = 3
  /\ Len(WordsOf(wtext)[2]) > wwidth
  /\ Len(wlines) = 3
  /\ wlines[1] = WordsOf(wtext)[1]
  /\ wlines[2] = SubSeq(WordsOf(wtext)[2], 1, wwidth - 3) \o Ellipsis
  /\ wlines[3] = WordsOf(wtext)[3]


\* the main flow has written w to the display
Shown(w) == \E i \in WritesOf("main") : display[i].what = w
MsgError == "Error fetching events"
MsgEmpty == "No historical events found for today."
\* generateEventList has returned
ListReturned == mpc \in {"returned", "readrune", "exited", "fatal"}

\* each outcome has its own writes, and they are complete at the return
OwnMessage ==
  /\ outcome = "error" => (~Shown(MsgEmpty) /\ ~Shown("RenderEvents"))
  /\ outcome = "empty" => (~Shown(MsgError) /\ ~Shown("RenderEvents"))
  /\ (ListReturned /\ outcome = "error") => Shown(MsgError)
  /\ (ListReturned /\ outcome = "empty") => Shown(MsgEmpty)
  /\ ListReturned =>
       display[Len(display)] = Wr("main", IF outcome = "events" THEN "RenderEvents" ELSE "prompt")

\* a step of main after generateEventList: the return is followed by the wait
\* for a key, and the process ends only out of that wait
ExitOnlyAfterKeyWait ==
  /\ (mpc' \in {"exited", "fatal"} /\ mpc' # mpc) => mpc = "readrune"
  /\ (mpc' = "readrune" /\ mpc' # mpc) => mpc = "returned"
  /\ (mpc = "returned" /\ mpc' # mpc) => mpc' = "readrune"

\* C23: a fetch failure ends in the error message and an empty list in the
\* no-events message, never in the rendering and never in the other's message;
\* the process exits nowhere but in main after the wait for a key, which
\* follows the return of generateEventList.
C23_OwnMessageNoExit ==
  /\ [](OwnMessage)
  /\ [][ExitOnlyAfterKeyWait]_loaderVars

\* the no-events message is on the display and main waits for a key
C23_Witness ==
  /\ mpc = "readrune"
  /\ outcome = "empty"
  /\ Shown(MsgEmpty)
  /\ ticks > 0


\* C24: a backoff sleep is entered only after a transient failure of an
\* attempt that is not the last; the first sleep of a call has the base delay
\* 500ms and the second 1000ms, whatever the kinds of the failures; an attempt
\* after the first is made only after a sleep; no sleep follows the third
\* attempt.
C24_BackoffSchedule ==
  /\ pc = "sleep" => (TransientOutcome /\ httpAttempts < 3 /\ Len(sleepLog) = httpAttempts)
  /\ Len(sleepLog) <= 2
  /\ Len(sleepLog) >= 1 => sleepLog[1] = 500
  /\ Len(sleepLog) >= 2 => sleepLog[2] = 1000
  /\ httpAttempts >= 1 => Len(sleepLog) \in {httpAttempts - 1, httpAttempts}
  /\ httpAttempts = 3 => (pc # "sleep" /\ Len(sleepLog) = 2)

\* two retries with the delays 500ms and 1000ms, and a third failure that ends the call
C24_Witness ==
  /\ Done /\ ctx = "live"
  /\ httpAttempts = 3
  /\ sleepLog = <<500, 1000>>
  /\ lastOutcome.kind = "read"
  /\ ret.err = Err("read", 0, <<>>)


(***************************************************************************)
(* The jitter of sleepContext (client.go 432-444).  Durations are          *)
(* nanoseconds, as time.Duration is; the largest, 1000ms + 100ms, is far   *)
(* below 2^31.                                                             *)
(***************************************************************************)
\* rand.Int63n is sampled at NumJitterSamples evenly spaced values and at the
\* values around the ends and the middle of its range
NumJitterSamples == 20

\* time.Millisecond
Millisecond == 1000000
\* int64(200*time.Millisecond), the argument of rand.Int63n
JitterSpan == 200 * Millisecond
\* 100*time.Millisecond, subtracted from the random value
JitterShift == 100 * Millisecond

\* values rand.Int63n(JitterSpan) can return: 0 <= r < JitterSpan
RandSamples ==
  {k * (JitterSpan \div NumJitterSamples) : k \in 0..(NumJitterSamples - 1)}
    \cup {1, JitterShift - 1, JitterShift, JitterShift + 1, JitterSpan - 1}

\* the backoffs FetchOnThisDay passes to sleepContext: 500ms, 1000ms
Backoffs == {InitialBackoff * Millisecond, NextBackoff(InitialBackoff) * Millisecond}

\* jitter := time.Duration(r) - 100*time.Millisecond; if jitter < 0 { jitter = 0 }
Jitter(r) == IF r - JitterShift < 0 THEN 0 ELSE r - JitterShift

\* the argument of time.After: d + jitter
TimerDelay(d, r) == d + Jitter(r)

JitterInit ==
  /\ jd \in Backoffs
  /\ jctx = "live"
  /\ jtimer = 0 - 1
  /\ jret = "none"
  /\ jpc = "input"
  /\ FetchIdle /\ RaceIdle /\ LoaderIdle /\ SelIdle /\ WrapIdle /\ LayoutIdle

outsideJitter == <<vars, raceVars, loaderVars, selVars, wrapVars, layoutVars>>

\* sleepContext(ctx, d) up to the select: the jitter is drawn and the timer set
JitterSleepContext ==
  /\ jpc = "input"
  /\ \E r \in RandSamples : jtimer' = TimerDelay(jd, r)
  /\ jpc' = "select"
  /\ UNCHANGED <<jd, jctx, jret>>
  /\ UNCHANGED outsideJitter

\* the caller cancels the context during the sleep
JitterCtxCancel ==
  /\ jpc = "select"
  /\ jctx = "live"
  /\ jctx' = "canceled"
  /\ UNCHANGED <<jd, jtimer, jret, jpc>>
  /\ UNCHANGED outsideJitter

\* the deadline of the context expires during the sleep
JitterCtxDeadline ==
  /\ jpc = "select"
  /\ jctx = "live"
  /\ jctx' = "deadline"
  /\ UNCHANGED <<jd, jtimer, jret, jpc>>
  /\ UNCHANGED outsideJitter

\* the select returns: nil after the timer, ctx.Err() after ctx.Done()
JitterReturns ==
  /\ jpc = "select"
  /\ \E e \in sleepContext(jctx) : jret' = e
  /\ jpc' = "returned"
  /\ UNCHANGED <<jd, jctx, jtimer>>
  /\ UNCHANGED outsideJitter

JitterNext ==
  \/ JitterSleepContext
  \/ JitterCtxCancel
  \/ JitterCtxDeadline
  \/ JitterReturns

SpecJitter == JitterInit /\ [][JitterNext]_<<jitterVars, outsideJitter>>

\* the delays of the interval [d - 100ms, d + 100ms) at the sampled offsets
ClaimedDelays(d) == {d - 100 * 1000000 + r : r \in RandSamples}

\* C25: the delay slept before a retry lies in [backoff - 100ms,
\* backoff + 100ms), and every value of that interval, the values below the
\* backoff included, is a delay sleepContext can choose.
C25_JitterSymmetric ==
  /\ jpc # "input" => (jtimer >= jd - 100 * 1000000 /\ jtimer < jd + 100 * 1000000)
  /\ jpc # "input" => \A x \in ClaimedDelays(jd) : \E r \in RandSamples : TimerDelay(jd, r) = x


\* C26: a call during which the context was cancelled or its deadline
\* expired, in an HTTP attempt or in a backoff sleep, returns the context's
\* error (context.Canceled, context.DeadlineExceeded), which is not the error
\* of a failed connection or read.
C26_CancelDistinct ==
  (Done /\ ctx # "live") => ret = [evs |-> <<>>, err |-> Err(ctx, 0, <<>>)]


\* C27: an entry differs from what the call found only if it is the entry of
\* the call's date, the call has bypassCache=false and its latest attempt got
\* a 200 with a body that parses, which the entry now holds; a call that
\* returned an error or was served from the cache has changed nothing; an
\* entry that existed when the call started still exists.
C27_EntryChangesOnlyByOverwrite ==
  /\ \A p \in Paths :
       fs[p] # fs0[p] =>
         /\ p = path
         /\ ~bypassCache
         /\ lastOutcome.kind = "response" /\ lastOutcome.code = 200
         /\ ValidJSON(lastOutcome.body)
         /\ fs[p].exists /\ fs[p].body = lastOutcome.body
  /\ (Done /\ ret.err # Nil) => fs = fs0
  /\ (Done /\ fromCache) => fs = fs0
  /\ \A p \in Paths : fs0[p].exists => fs[p].exists

\* an unparseable entry and a stale entry of another date were found; the
\* first is overwritten by the fetched body, the second is still there
C27_Witness ==
  /\ Done /\ ~bypassCache /\ wrote = "ok"
  /\ entry0.exists /\ ~ValidJSON(entry0.body)
  /\ fs[path].body = BodyA /\ ValidJSON(BodyA)
  /\ \E p \in Paths \ {path} : fs[p].exists /\ fs[p] = fs0[p] /\ now - fs[p].mtime > ttl


\* the latest attempt of the call got a 200 whose body parses
AcceptedOK ==
  /\ lastOutcome.kind = "response"
  /\ lastOutcome.code = 200
  /\ ValidJSON(lastOutcome.body)

IsPrefix(a, b) == Len(a) <= Len(b) /\ a = SubSeq(b, 1, Len(a))

\* C30: writeCacheFileAtomic runs only with the body of a 200 response that
\* parsed in the same call; the temp file holds a prefix of that body and the
\* entry, once the call has changed it, that body; a call whose latest
\* response is an error status or does not parse writes nothing.
C30_OnlyAcceptedBodiesWritten ==
  /\ (pc \in WritePcs \/ wrote # "none") => (AcceptedOK /\ body = lastOutcome.body)
  /\ tmp.exists => (AcceptedOK /\ IsPrefix(tmp.body, lastOutcome.body))
  /\ \A p \in Paths :
       fs[p] # fs0[p] => (p = path /\ AcceptedOK /\ fs[p].body = lastOutcome.body)
  /\ (lastOutcome.kind = "response" /\ ~AcceptedOK) => (wrote = "none" /\ ~tmp.exists /\ fs = fs0)

\* the second fetch of a date, after a 503 with a body, overwrites the body
\* the first fetch wrote
C30_Witness ==
  /\ Done /\ wrote = "ok" /\ calls = 2 /\ httpAttempts >= 2
  /\ prev.wrote /\ prev.month = month /\ prev.day = day
  /\ entry0.body = BodyA /\ fs[path].body = BodyB


\* C28: for an input of n events with pairwise distinct (year, text) pairs,
\* selectEventsByEra returns exactly min(5, n) events, pairwise distinct input
\* events, among them the events of the era pass; so it returns an event for
\* every non-empty input.
C28_EraReturnsMinFive ==
  (EraReturned /\ NoDuplicates(allEvents)) =>
    /\ Len(selected) = (IF Len(allEvents) < 5 THEN Len(allEvents) ELSE 5)
    /\ Holds(allEvents, selected)
    /\ Holds(selected, eraSelected)
    /\ NoDuplicates(selected)
    /\ Len(allEvents) > 0 => Len(selected) > 0

\* six distinct events of four eras and of year 0: the era pass selects four,
\* the fill pass the event of year 0
C28_Witness ==
  /\ EraReturned /\ NoDuplicates(allEvents)
  /\ Len(allEvents) = 6
  /\ Len(eraSelected) = 4
  /\ Len(selected) = 5
  /\ \E i \in 1..Len(selected) : selected[i].Year < 1 \/ selected[i].Year > 2030


(***************************************************************************)
(* The handshake under the scheduling of the Go runtime: a goroutine that  *)
(* can run does run (weak fairness of each step of main up to wg.Wait and  *)
(* of each step of the indicator); FetchOnThisDay returns, its context has *)
(* a timeout; a sender blocked on done is met by the next select the       *)
(* indicator enters, whose timer is then not yet ready (strong fairness of *)
(* the rendezvous, which is enabled each time the indicator is back at the *)
(* select).  No fairness for the key press: the user may never press one.  *)
(***************************************************************************)
SpecLoaderFair ==
  /\ LoaderInit
  /\ [][LoaderNext]_<<loaderVars, outsideLoader>>
  /\ WF_loaderVars(GoLoader)
  /\ WF_loaderVars(\E o \in Outcomes : FetchReturns(o))
  /\ SF_loaderVars(SendDone)
  /\ WF_loaderVars(CloseDone)
  /\ WF_loaderVars(WgWait)
  /\ WF_loaderVars(LoaderDraw)
  /\ WF_loaderVars(LoaderClear)
  /\ WF_loaderVars(LoaderWgDone)

\* main has got past wg.Wait()
WaitReturned == mpc \in {"out", "returned", "readrune", "exited", "fatal"}

\* the indicator has terminated, its last write being the clearing of its line
IndicatorDone ==
  /\ lpc = "returned"
  /\ WritesOf("loader") # {}
  /\ \E i \in WritesOf("loader") :
       display[i].what = "d_clear" /\ \A j \in WritesOf("loader") : j <= i

\* a step that changes the counter of the WaitGroup is the wg.Add(1) of main
\* or the one wg.Done() of the indicator
CounterSteps ==
  wg' # wg =>
    \/ mpc = "start" /\ wg = 0 /\ wg' = 1
    \/ lpc = "d_done" /\ lpc' = "returned" /\ wg = 1 /\ wg' = 0

\* C29: once FetchOnThisDay has returned, wherever the indicator is in its
\* redraw cycle, the send on done is received, the indicator clears its line,
\* calls wg.Done() once and terminates, and wg.Wait() returns.
C29_HandshakeCompletes ==
  /\ (mpc = "send") ~> (mpc = "close" /\ lpc = "d_move")
  /\ (mpc = "send") ~> (IndicatorDone /\ wg = 0 /\ WaitReturned)
  /\ [](lpc = "returned" => (IndicatorDone /\ wg = 0))
  /\ [][CounterSteps]_loaderVars

\* the handshake is complete after a signal that reached the indicator
\* between two redraws
C29_Witness ==
  /\ WaitReturned /\ IndicatorDone /\ wg = 0
  /\ doneCh = "closed"
  /\ ticks >= 1 /\ ticks < MaxTicks
  /\ stepIndex = ticks % NumLoadingSteps

====
